---------------------------- MODULE Spec2Model ----------------------------
(***************************************************************************)
(* Model of the exam-automation content script: the content classifier,   *)
(* the extractors, the answer injectors, the button cascades              *)
(* (pages/content-ui/src/utils/contentHandler.ts) and the polling loop    *)
(* that drives them (pages/content-ui/src/App.tsx).                       *)
(*                                                                         *)
(* Strings are sequences of one-character strings, so that toLowerCase,   *)
(* trim, includes and the regular expressions are computed, not assumed.  *)
(* The DOM is a record of what the selectors used by the code return.     *)
(***************************************************************************)
EXTENDS Integers, Sequences, FiniteSets, TLC

VARIABLES
    host,                   \* which host site the content script runs on
    page,                   \* the host page's DOM, as seen through the selectors
    examStarted,            \* App.tsx useState flags
    processingContent,
    isProcessingQuestion,
    needsUserIntervention,
    aiStatus,
    aiError,
    ticks,                  \* the polling-loop passes in flight, one record per slot
    resetTimers,            \* pending setTimeout(() => setIsProcessingQuestion(false), 2000)
    passes,                 \* how many passes of processCurrentContent have begun, modulo 2
    call,                   \* function-level runs: the function applied and its input
    ret,                    \* function-level runs: what it returned / clicked
    rich,                   \* the one-second timer surface (the richer App)
    processedContentIds,    \* contentHandler.ts: the ids marked as processed
    background,             \* the background context: the API key and its messages
    hook                    \* useMessageHandler: its state and the calls of sendMessage

vars == << host, page, examStarted, processingContent, isProcessingQuestion,
           needsUserIntervention, aiStatus, aiError, ticks, resetTimers, passes,
           call, ret, rich, processedContentIds, background, hook >>

appVars == << examStarted, processingContent, isProcessingQuestion,
              needsUserIntervention, aiStatus, aiError, ticks, resetTimers, passes >>

-----------------------------------------------------------------------------
(* Bounds of the model *)

MaxTicks == 2
MaxTimers == 1
MaxStrLen == 2
MaxChoices == 2
MaxButtons == 2
MaxContainers == 2
MaxOptLen == 1
MaxAnswers == 2
MaxIdLen == 1
MaxMarked == 2
MaxMessages == 2

-----------------------------------------------------------------------------
(* Strings *)

\* A node a selector looks up: its textContent, or absent (querySelector
\* returned null)
Node(text) == [present |-> TRUE, text |-> text]
Absent == [present |-> FALSE, text |-> << >>]

UpperCase == << "A", "B", "C", "D", "E", "F", "G", "H", "I", "J", "K", "L", "M",
                "N", "O", "P", "Q", "R", "S", "T", "U", "V", "W", "X", "Y", "Z" >>
LowerCase == << "a", "b", "c", "d", "e", "f", "g", "h", "i", "j", "k", "l", "m",
                "n", "o", "p", "q", "r", "s", "t", "u", "v", "w", "x", "y", "z" >>
WhiteSpace == { " ", "\n", "\t" }
Digits == { "0", "1", "2", "3", "4", "5", "6", "7", "8", "9" }
DigitSeq == << "0", "1", "2", "3", "4", "5", "6", "7", "8", "9" >>

LowerChar(c) ==
    IF \E i \in 1..Len(UpperCase) : UpperCase[i] = c
    THEN LowerCase[CHOOSE i \in 1..Len(UpperCase) : UpperCase[i] = c]
    ELSE c

toLowerCase(s) == [i \in 1..Len(s) |-> LowerChar(s[i])]

RECURSIVE trimStart(_)
trimStart(s) ==
    IF s # << >> /\ Head(s) \in WhiteSpace THEN trimStart(Tail(s)) ELSE s

RECURSIVE trimEnd(_)
trimEnd(s) ==
    IF s # << >> /\ s[Len(s)] \in WhiteSpace
    THEN trimEnd(SubSeq(s, 1, Len(s) - 1))
    ELSE s

trim(s) == trimEnd(trimStart(s))

includes(s, sub) ==
    \E i \in 0..(Len(s) - Len(sub)) : SubSeq(s, i + 1, i + Len(sub)) = sub

\* String.prototype.replace(/\s+/g, '')
stripWhitespace(s) == SelectSeq(s, LAMBDA c : c \notin WhiteSpace)

\* element.textContent?.trim() || '' for an element that may be missing
textOf(node) == IF node.present THEN trim(node.text) ELSE << >>

-----------------------------------------------------------------------------
(* Words of the host page and of the code's string literals *)

SP == << " " >>
wCheck == << "c", "h", "e", "c", "k" >>
wAnswer == << "a", "n", "s", "w", "e", "r" >>
wSubmit == << "s", "u", "b", "m", "i", "t" >>
wNext == << "n", "e", "x", "t" >>
wContinue == << "c", "o", "n", "t", "i", "n", "u", "e" >>
wTo == << "t", "o" >>
wFinal == << "f", "i", "n", "a", "l" >>
wUnit == << "u", "n", "i", "t" >>
wExam == << "e", "x", "a", "m" >>
wLesson == << "l", "e", "s", "s", "o", "n" >>

kwContinueToFinalExam == wContinue \o SP \o wTo \o SP \o wFinal \o SP \o wExam
kwContinueToUnitExam == wContinue \o SP \o wTo \o SP \o wUnit \o SP \o wExam
kwContinueToLesson == wContinue \o SP \o wTo \o SP \o wLesson
kwSubmitExam == wSubmit \o SP \o wExam
kwReadyToSubmit ==
    << "r", "e", "a", "d", "y" >> \o SP \o wTo \o SP \o wSubmit \o SP
        \o << "t", "h", "i", "s" >> \o SP \o wExam

\* Texts as the host page shows them
txCheckAnswers == << "C" >> \o Tail(wCheck) \o SP \o << "A" >> \o Tail(wAnswer) \o << "s" >>
txNext == << "N" >> \o Tail(wNext)
txTryAgain == << "T", "r", "y", " ", "A", "g", "a", "i", "n" >>
txPrevious == << "P", "r", "e", "v", "i", "o", "u", "s" >>
txContinueToFinalExam ==
    << "C" >> \o Tail(wContinue) \o SP \o wTo \o SP \o << "F" >> \o Tail(wFinal)
        \o SP \o << "E" >> \o Tail(wExam)
txContinueToUnitExam ==
    << "C" >> \o Tail(wContinue) \o SP \o wTo \o SP \o << "U" >> \o Tail(wUnit)
        \o SP \o << "E" >> \o Tail(wExam)
txContinueToLesson ==
    << "C" >> \o Tail(wContinue) \o SP \o wTo \o SP \o << "L" >> \o Tail(wLesson)
txSubmitExam == << "S" >> \o Tail(wSubmit) \o SP \o << "E" >> \o Tail(wExam)
txCancel == << "C", "a", "n", "c", "e", "l" >>
txReadyToSubmit ==
    << "A", "r", "e", " ", "y", "o", "u", " " >> \o kwReadyToSubmit \o << "?" >>


-----------------------------------------------------------------------------
(* The DOM.  A page is a record:                                            *)
(*   sel           the container selectors that match some element          *)
(*   unit          for each unit-exam selector, the first element it        *)
(*                 matches: [present, radio |-> it has label.radio / radio  *)
(*                 input descendants, box |-> it has an .exam-question-box  *)
(*                 descendant]                                              *)
(*   title, question   the .content-title / .content-text node              *)
(*   tof           the .tof-choice-box elements: [text |-> the              *)
(*                 .tof-choice-text node, options |-> label.radio texts]    *)
(*   rows          the .multi-choice-box .row elements: each row's          *)
(*                 label.checkbox node                                      *)
(*   radios        the .exam-question-box label.radio elements (texts)      *)
(*   buttons       the button / .unit-btn elements in document order        *)
(*   alertText     the .dialog-content-container-outer .alert-text node     *)
(*   dialogButtons texts of the dialog's .alert-buttons-right buttons       *)

selTofClass == ".ces-inquiry-tof"
selTofTag == "ces-inquiry-tof"
selMcClass == ".ces-inquiry-multi-choice"
selMcTag == "ces-inquiry-multi-choice"
selTextClass == ".ces-inquiry-text"
selTextTag == "ces-inquiry-text"
selTextEdit == "[ng-switch-when=TEXT_EDIT]"

trueFalseSelectors == << selTofClass, selTofTag >>
multipleChoiceSelectors == << selMcClass, selMcTag >>
textContentSelectors == << selTextClass, selTextTag, selTextEdit >>
\* '.node-content-box .exam-question-box', '...:has(label.radio)',
\* '...:has(input[type="radio"])', '...:has(.exam-question-box)'
unitExamSelectors == << 1, 2, 3, 4 >>

ngCheck == "ctrl.checkAnswers()"
ngReset == "ctrl.resetInquiry()"
ngGoNext == "ctrl.goToNextStep()"
ngNone == ""

clsUnit == "unit-btn"
clsNext == "next-unit-btn"
clsPrev == "prev-unit-btn"
clsSubmit == "submit-btn"

Btn(tag, cls, ng, text, disabled) ==
    [tag |-> tag, cls |-> cls, ng |-> ng, text |-> text, disabled |-> disabled]

UnitElement(radio, box) == [present |-> TRUE, radio |-> radio, box |-> box]
NoElement == [present |-> FALSE, radio |-> FALSE, box |-> FALSE]

EmptyPage ==
    [sel |-> {}, unit |-> << NoElement, NoElement, NoElement, NoElement >>,
     title |-> Absent, question |-> Absent,
     tof |-> << >>, rows |-> << >>, radios |-> << >>,
     buttons |-> << >>, alertText |-> Absent, dialogButtons |-> << >>]

NoSelector == "none"

\* document.querySelector over a list of selectors: the first selector that matches
FirstMatch(p, selectors) ==
    LET hit == { i \in 1..Len(selectors) : selectors[i] \in p.sel }
    IN  IF hit = {} THEN NoSelector
        ELSE selectors[CHOOSE i \in hit : \A j \in hit : i <= j]

MinOf(S) == CHOOSE i \in S : \A j \in S : i <= j
MaxOf(S) == CHOOSE i \in S : \A j \in S : i >= j
FirstIdx(S) == IF S = {} THEN 0 ELSE MinOf(S)

\* Indices (document order) of the buttons a predicate selects
Matching(p, Pred(_)) == { i \in 1..Len(p.buttons) : Pred(p.buttons[i]) }

isNextUnitButton(b) == b.tag = "button" /\ clsUnit \in b.cls /\ clsNext \in b.cls
isTryAgainButton(b) == isNextUnitButton(b) /\ b.ng = ngReset
isNextNotReset(b) == isNextUnitButton(b) /\ b.ng # ngReset

buttonText(b) == toLowerCase(trim(b.text))

isContinueToFinalExam(t) == includes(t, kwContinueToFinalExam)
isContinueText(t) ==
    \/ includes(t, kwContinueToFinalExam)
    \/ includes(t, kwContinueToUnitExam)
    \/ includes(t, kwContinueToLesson)
isCheckAnswersText(t) == includes(t, wCheck) /\ includes(t, wAnswer)

\* hasTryAgainButton
hasTryAgainButton(p) == Matching(p, isTryAgainButton) # {}

-----------------------------------------------------------------------------
(* Content Classifier *)

TRUE_FALSE == "true_false"
MULTIPLE_CHOICE == "multiple_choice"
UNIT_EXAM == "unit_exam"
TEXT_CONTENT == "text_content"
UNKNOWN == "unknown"
ContentTypes == { TRUE_FALSE, MULTIPLE_CHOICE, UNIT_EXAM, TEXT_CONTENT, UNKNOWN }

\* The first unit-exam selector that matches, after the "additional check"
unitExamElement(p) ==
    LET hit == { i \in 1..Len(unitExamSelectors) : p.unit[i].present }
        el == IF hit = {} THEN NoElement ELSE p.unit[MinOf(hit)]
    IN  IF el.present /\ ~el.radio /\ ~el.box THEN NoElement ELSE el

\* A classifier that asks for the generic next button before the containers
\* (not the code's order)
detectNextButtonFirst(p) ==
    IF FirstIdx(Matching(p, isNextUnitButton)) # 0 THEN TEXT_CONTENT
    ELSE IF FirstMatch(p, trueFalseSelectors) # NoSelector THEN TRUE_FALSE
    ELSE IF FirstMatch(p, multipleChoiceSelectors) # NoSelector THEN MULTIPLE_CHOICE
    ELSE IF unitExamElement(p).present THEN UNIT_EXAM
    ELSE IF FirstMatch(p, textContentSelectors) # NoSelector THEN TEXT_CONTENT
    ELSE UNKNOWN

detectContentType(p) ==
    LET trueFalseElement == FirstMatch(p, trueFalseSelectors)
        multipleChoiceElement == FirstMatch(p, multipleChoiceSelectors)
        textContentElement == FirstMatch(p, textContentSelectors)
        nextButton == FirstIdx(Matching(p, isNextUnitButton))
    IN  IF trueFalseElement # NoSelector THEN TRUE_FALSE
        ELSE IF multipleChoiceElement # NoSelector THEN MULTIPLE_CHOICE
        ELSE IF unitExamElement(p).present THEN UNIT_EXAM
        ELSE IF textContentElement # NoSelector THEN TEXT_CONTENT
        ELSE IF nextButton # 0 THEN TEXT_CONTENT
        ELSE UNKNOWN

-----------------------------------------------------------------------------
(* Button cascades.  Each returns the index of the button it clicks, 0 for  *)
(* none.                                                                    *)

\* selectors[0..3] of clickCheckAnswersButton; the two 'button:contains(...)'
\* selectors are not valid CSS: querySelectorAll throws and the catch skips them
checkSelector1(b) == clsUnit \in b.cls /\ clsNext \in b.cls /\ b.ng = ngCheck
checkSelector2(b) == clsUnit \in b.cls /\ clsNext \in b.cls
checkSelector3(b) == b.tag = "button" /\ clsUnit \in b.cls /\ clsPrev \notin b.cls
checkSelector4(b) == clsUnit \in b.cls

\* One selector of the cascade: the "Check Answers" pass, then the first enabled
trySelector(p, S) ==
    LET byText == { i \in S : /\ ~isContinueToFinalExam(buttonText(p.buttons[i]))
                              /\ isCheckAnswersText(buttonText(p.buttons[i]))
                              /\ ~p.buttons[i].disabled }
        enabled == { i \in S : /\ ~isContinueToFinalExam(buttonText(p.buttons[i]))
                               /\ ~p.buttons[i].disabled }
    IN  IF byText # {} THEN MinOf(byText) ELSE FirstIdx(enabled)

\* className.includes('submit') || className.includes('next')
classIncludesSubmitOrNext(b) == clsSubmit \in b.cls \/ clsNext \in b.cls

isPossibleSubmitButton(b) ==
    /\ ~b.disabled
    /\ ~isContinueText(buttonText(b))
    /\ \/ includes(buttonText(b), wSubmit)
       \/ includes(buttonText(b), wNext)
       \/ includes(buttonText(b), wContinue)
       \/ classIncludesSubmitOrNext(b)

checkButtonByText(b) ==
    isCheckAnswersText(buttonText(b)) /\ ~isContinueToFinalExam(buttonText(b))

clickCheckAnswersButton(p) ==
    LET s1 == trySelector(p, Matching(p, checkSelector1))
        s2 == trySelector(p, Matching(p, checkSelector2))
        s3 == trySelector(p, Matching(p, checkSelector3))
        s4 == trySelector(p, Matching(p, checkSelector4))
        byText == FirstIdx(Matching(p, checkButtonByText))
        lastResort == FirstIdx(Matching(p, isPossibleSubmitButton))
    IN  IF s1 # 0 THEN s1
        ELSE IF s2 # 0 THEN s2
        ELSE IF s3 # 0 THEN s3
        ELSE IF s4 # 0 THEN s4
        ELSE IF byText # 0 /\ ~p.buttons[byText].disabled THEN byText
        ELSE lastResort

\* A filter of clickNextButton that lets every text through (not the code's)
nextCandidateAnyText(b) == ~b.disabled

\* clickNextButton: foundButtons collects, selector by selector, the enabled
\* buttons without an excluded text; the first one found is clicked
nextSelector2(b) == isNextUnitButton(b) /\ b.ng = ngGoNext
nextCandidate(b) == ~b.disabled /\ ~isContinueText(buttonText(b))

clickNextButton(p) ==
    LET f1 == { i \in Matching(p, isNextNotReset) : nextCandidate(p.buttons[i]) }
        f2 == { i \in Matching(p, nextSelector2) : nextCandidate(p.buttons[i]) }
        f3 == { i \in Matching(p, isNextUnitButton) : nextCandidate(p.buttons[i]) }
    IN  IF f1 # {} THEN MinOf(f1)
        ELSE IF f2 # {} THEN MinOf(f2)
        ELSE FirstIdx(f3)

\* The "already answered" advance of the true/false and multiple-choice handlers
clickExistingNext(p) ==
    LET nextButton == FirstIdx(Matching(p, isNextNotReset))
    IN  IF nextButton # 0 /\ ~p.buttons[nextButton].disabled THEN nextButton ELSE 0

\* The advance of handleUnitExamContent: 'button.unit-btn.next-unit-btn:not([disabled])'
isEnabledNextUnitButton(b) == isNextUnitButton(b) /\ ~b.disabled
clickUnitExamNext(p) == FirstIdx(Matching(p, isEnabledNextUnitButton))

\* A processCurrentContent without the dialog test (not the code's)
noDialogTest(p) == FALSE

\* isExamSubmissionDialogPresent / clickSubmitExamButton (the last matching button)
isExamSubmissionDialogPresent(p) ==
    p.alertText.present /\ includes(toLowerCase(p.alertText.text), kwReadyToSubmit)

clickSubmitExamButton(p) ==
    LET hit == { i \in 1..Len(p.dialogButtons) :
                    includes(toLowerCase(trim(p.dialogButtons[i])), kwSubmitExam) }
    IN  IF hit = {} THEN 0 ELSE MaxOf(hit)

-----------------------------------------------------------------------------
(* Extractors.  A live element reference is a record naming the element.    *)

Null == "null"
NullData == [type |-> Null, contentId |-> << >>, title |-> << >>, question |-> << >>,
             choices |-> << >>]

TofOption(i, j) == [kind |-> "tofOption", choice |-> i, opt |-> j]
RowLabel(i) == [kind |-> "rowLabel", choice |-> i, opt |-> 1]
ExamRadio(i) == [kind |-> "examRadio", choice |-> i, opt |-> 1]

unitExamTitle ==
    << "U", "n", "i", "t", " ", "E", "x", "a", "m", " ",
       "Q", "u", "e", "s", "t", "i", "o", "n" >>

\* An id that keeps the letter case (not the code's)
contentIdKeepingCase(title, question) ==
    stripWhitespace(title \o << ":", ":" >> \o question)

\* `${title}::${question}`.replace(/\s+/g, '').toLowerCase()
generateContentId(title, question) ==
    toLowerCase(stripWhitespace(title \o << ":", ":" >> \o question))

\* A set that forgets what it held (not the code's)
replaceContentIds(ids, contentId) == { contentId }

\* processedContentIds.add(contentId)
addContentId(ids, contentId) == ids \cup { contentId }

\* processedContentIds.has(contentId)
hasContentBeenProcessed(contentId) == contentId \in processedContentIds

extractTrueFalseQuestionData(p) ==
    LET title == textOf(p.title)
        question == textOf(p.question)
        choices == [i \in 1..Len(p.tof) |->
                      [text |-> textOf(p.tof[i].text),
                       options |-> [j \in 1..Len(p.tof[i].options) |->
                                       trim(p.tof[i].options[j])],
                       optionElements |-> [j \in 1..Len(p.tof[i].options) |->
                                       TofOption(i, j)]]]
    IN  [type |-> TRUE_FALSE, contentId |-> generateContentId(title, question),
         title |-> title, question |-> question, choices |-> choices]

extractMultipleChoiceQuestionData(p) ==
    IF selMcClass \notin p.sel THEN NullData
    ELSE
    LET title == textOf(p.title)
        question == textOf(p.question)
        choices == [i \in 1..Len(p.rows) |->
                      [text |-> textOf(p.rows[i]),
                       options |-> << textOf(p.rows[i]) >>,
                       optionElements |->
                           IF p.rows[i].present THEN << RowLabel(i) >> ELSE << >>]]
    IN  [type |-> MULTIPLE_CHOICE, contentId |-> generateContentId(title, question),
         title |-> title, question |-> question, choices |-> choices]

extractUnitExamQuestionData(p) ==
    LET question == textOf(p.question)
        title == unitExamTitle
        choices == [i \in 1..Len(p.radios) |->
                      [text |-> trim(p.radios[i]),
                       options |-> << trim(p.radios[i]) >>,
                       optionElements |-> << ExamRadio(i) >>]]
    IN  [type |-> UNIT_EXAM, contentId |-> generateContentId(title, question),
         title |-> title, question |-> question, choices |-> choices]

-----------------------------------------------------------------------------
(* Answer injectors *)

\* selectTrueFalseAnswers, one choice: the index of the option clicked (0: none)
trueFalseExact(choice, answer) ==
    FirstIdx({ j \in 1..Len(choice.optionElements) : choice.options[j] = answer })

trueFalseCaseInsensitive(choice, answer) ==
    FirstIdx({ j \in 1..Len(choice.optionElements) :
                  toLowerCase(choice.options[j]) = toLowerCase(answer) })

trueFalsePartial(choice, answer) ==
    FirstIdx({ j \in 1..Len(choice.optionElements) :
                  \/ includes(toLowerCase(choice.options[j]), toLowerCase(answer))
                  \/ includes(toLowerCase(answer), toLowerCase(choice.options[j])) })

trueFalseFallback(choice) == IF Len(choice.optionElements) > 0 THEN 1 ELSE 0

trueFalseOption(choice, answer) ==
    IF trueFalseExact(choice, answer) # 0 THEN trueFalseExact(choice, answer)
    ELSE IF trueFalseCaseInsensitive(choice, answer) # 0
         THEN trueFalseCaseInsensitive(choice, answer)
    ELSE IF trueFalsePartial(choice, answer) # 0 THEN trueFalsePartial(choice, answer)
    ELSE trueFalseFallback(choice)

\* A loop that passes over the first choice (not the code's)
tofClickableAfterFirst(qd, answers, i) ==
    { k \in i..Len(qd.choices) :
         k > 1 /\ k <= Len(answers) /\ Len(qd.choices[k].optionElements) > 0 }

\* The choices of index >= i that selectTrueFalseAnswers clicks an option for
tofClickable(qd, answers, i) ==
    { k \in i..Len(qd.choices) :
         k <= Len(answers) /\ Len(qd.choices[k].optionElements) > 0 }

\* An injector that answers every choice with the first answer (not the code's)
tofClickFirstAnswer(qd, answers, k) ==
    qd.choices[k].optionElements[trueFalseOption(qd.choices[k], answers[1])]

tofClick(qd, answers, k) ==
    qd.choices[k].optionElements[trueFalseOption(qd.choices[k], answers[k])]

\* The whole of selectTrueFalseAnswers: the elements clicked, in order
RECURSIVE tofClicksFrom(_, _, _)
tofClicksFrom(qd, answers, i) ==
    IF tofClickable(qd, answers, i) = {} THEN << >>
    ELSE LET k == MinOf(tofClickable(qd, answers, i))
         IN  << tofClick(qd, answers, k) >> \o tofClicksFrom(qd, answers, k + 1)

selectTrueFalseAnswers(qd, answers) ==
    IF Len(answers) = 0 THEN << >> ELSE tofClicksFrom(qd, answers, 1)

\* selectMultipleChoiceAnswer / selectUnitExamAnswer: the three passes over the
\* choices; the index of the choice whose element is clicked (0: none)
hasElement(choice) == Len(choice.optionElements) > 0

choiceExact(choices, answer) ==
    FirstIdx({ k \in 1..Len(choices) : choices[k].text = answer /\ hasElement(choices[k]) })

\* A tier that never matches (not the code's)
choiceTierSkipped(choices, answer) == 0

choiceCaseInsensitive(choices, answer) ==
    FirstIdx({ k \in 1..Len(choices) :
                  toLowerCase(choices[k].text) = toLowerCase(answer)
                      /\ hasElement(choices[k]) })

choicePartial(choices, answer) ==
    FirstIdx({ k \in 1..Len(choices) :
                  /\ includes(choices[k].text, answer) \/ includes(answer, choices[k].text)
                  /\ hasElement(choices[k]) })

choiceFallback(choices) == 0

matchChoice(choices, answer) ==
    IF choiceExact(choices, answer) # 0 THEN choiceExact(choices, answer)
    ELSE IF choiceCaseInsensitive(choices, answer) # 0
         THEN choiceCaseInsensitive(choices, answer)
    ELSE IF choicePartial(choices, answer) # 0 THEN choicePartial(choices, answer)
    ELSE choiceFallback(choices)

selectMultipleChoiceAnswer(qd, answer) ==
    IF qd.type # MULTIPLE_CHOICE THEN << >>
    ELSE IF matchChoice(qd.choices, answer) = 0 THEN << >>
    ELSE << qd.choices[matchChoice(qd.choices, answer)].optionElements[1] >>

selectUnitExamAnswer(qd, answer) ==
    IF qd.type # UNIT_EXAM THEN << >>
    ELSE IF matchChoice(qd.choices, answer) = 0 THEN << >>
    ELSE << qd.choices[matchChoice(qd.choices, answer)].optionElements[1] >>

-----------------------------------------------------------------------------
(* The answer source's reply and parseOpenAIResponse *)

\* String.prototype.split('\n')
RECURSIVE splitLines(_)
splitLines(s) ==
    LET nl == { i \in 1..Len(s) : s[i] = "\n" }
    IN  IF nl = {} THEN << s >>
        ELSE << SubSeq(s, 1, MinOf(nl) - 1) >>
                 \o splitLines(SubSeq(s, MinOf(nl) + 1, Len(s)))

\* Length of the longest prefix of characters in a set
RECURSIVE prefixLen(_, _)
prefixLen(s, set) ==
    IF s # << >> /\ Head(s) \in set THEN 1 + prefixLen(Tail(s), set) ELSE 0

dropFirst(s, n) == SubSeq(s, n + 1, Len(s))

\* /^\d+\./.test(s)
isNumbered(s) ==
    LET d == prefixLen(s, Digits)
    IN  d > 0 /\ Len(s) > d /\ s[d + 1] = "."

\* s.replace(/^\d+\.\s*/, ''), and the capture of s.match(/^\d+\.\s*(.*)/)
afterNumber(s) ==
    LET rest == dropFirst(s, prefixLen(s, Digits) + 1)
    IN  dropFirst(rest, prefixLen(rest, WhiteSpace))

\* s.replace(/^-\s*/, '')
afterDash(s) ==
    IF s # << >> /\ Head(s) = "-"
    THEN dropFirst(Tail(s), prefixLen(Tail(s), WhiteSpace))
    ELSE s

parseTrueFalseLine(line) == IF isNumbered(line) THEN trim(afterNumber(line)) ELSE << >>

parseOpenAIResponse(response, questionType) ==
    IF questionType = TRUE_FALSE THEN
        LET lines == SelectSeq(splitLines(response), LAMBDA line : isNumbered(trim(line)))
        IN  [i \in 1..Len(lines) |-> parseTrueFalseLine(lines[i])]
    ELSE IF questionType = MULTIPLE_CHOICE THEN
        LET t == trim(response)
            cleanResponse == afterDash(IF isNumbered(t) THEN afterNumber(t) ELSE t)
        IN  << cleanResponse >>
    ELSE << >>

\* What chrome.runtime.sendMessage hands to the callback
\* (aiResponse << >>: undefined, null or ''; error "": undefined or '')
ReplyOk(text) == [status |-> "received", aiResponse |-> text, error |-> ""]
ReplyError(msg) == [status |-> "error", aiResponse |-> << >>, error |-> msg]
ReplyUndefined == [status |-> "undefined", aiResponse |-> << >>, error |-> ""]

msgUnknownError == "Unknown error from background script"
msgTypeError == "Cannot read properties of undefined (reading 'status')"

\* The catch/return of handleOpenAIProcessing:
\* [failed, message, answers] for a reply and a question type
answerOutcome(reply, questionType) ==
    IF reply = ReplyUndefined
    THEN [failed |-> TRUE, message |-> msgTypeError, answers |-> << >>]
    ELSE IF reply.status = "error"
    THEN [failed |-> TRUE,
          message |-> IF reply.error = "" THEN msgUnknownError ELSE reply.error,
          answers |-> << >>]
    ELSE [failed |-> FALSE, message |-> Null,
          answers |-> parseOpenAIResponse(reply.aiResponse, questionType)]

-----------------------------------------------------------------------------
(* The host site: the screens it renders, and the answer source's replies   *)

txAllowed == << "A", "l", "l", "o", "w", "e", "d" >>
txNotAllowed == << "N", "o", "t", " ", "a", "l", "l", "o", "w", "e", "d" >>
txParis == << "P", "a", "r", "i", "s" >>
txLyon == << "L", "y", "o", "n" >>
txTitle == << "Q", "1" >>
txQuestion == << "W", "h", "i", "c", "h", "?" >>

tofScenario(text) == [text |-> Node(text), options |-> << txAllowed, txNotAllowed >>]

ContentFacets == { "tof", "choice", "choiceTag", "exam", "text", "none" }

WithContent(p, c) ==
    IF c = "tof"
    THEN [p EXCEPT !.sel = { selTofClass }, !.title = Node(txTitle), !.question = Node(txQuestion),
                   !.tof = << tofScenario(<< "a" >>), tofScenario(<< "b" >>) >>]
    ELSE IF c = "choice"
    THEN [p EXCEPT !.sel = { selMcClass }, !.title = Node(txTitle), !.question = Node(txQuestion),
                   !.rows = << Node(txParis), Node(txLyon) >>]
    ELSE IF c = "choiceTag"
    THEN [p EXCEPT !.sel = { selMcTag }, !.title = Node(txTitle), !.question = Node(txQuestion),
                   !.rows = << Node(txParis), Node(txLyon) >>]
    ELSE IF c = "exam"
    THEN [p EXCEPT !.unit = << UnitElement(TRUE, FALSE), NoElement, NoElement, NoElement >>,
                   !.question = Node(txQuestion), !.radios = << txParis, txLyon >>]
    ELSE IF c = "text"
    THEN [p EXCEPT !.sel = { selTextClass }, !.title = Node(txTitle), !.question = Node(txQuestion)]
    ELSE p

btnCheckAnswers == Btn("button", { clsUnit, clsNext }, ngCheck, txCheckAnswers, FALSE)
btnCheckDisabled == Btn("button", { clsUnit, clsNext }, ngCheck, txCheckAnswers, TRUE)
btnNext == Btn("button", { clsUnit, clsNext }, ngGoNext, txNext, FALSE)
btnTryAgain == Btn("button", { clsUnit, clsNext }, ngReset, txTryAgain, FALSE)
btnFinalExam == Btn("button", { clsUnit, clsNext }, ngGoNext, txContinueToFinalExam, FALSE)
btnUnitExam == Btn("button", { clsUnit, clsNext }, ngGoNext, txContinueToUnitExam, FALSE)
btnLesson == Btn("button", { clsUnit, clsNext }, ngGoNext, txContinueToLesson, FALSE)
btnPrevious == Btn("button", { clsUnit, clsPrev }, ngNone, txPrevious, FALSE)
btnPlainCheck == Btn("button", {}, ngNone, txCheckAnswers, FALSE)
btnPlainSubmit == Btn("button", { clsSubmit }, ngNone, txSubmitExam, FALSE)

ButtonFacets == { << >>, << btnPrevious, btnCheckDisabled >>, << btnCheckAnswers >>,
                  << btnNext >>, << btnTryAgain >>, << btnFinalExam >> }

WithDialog(p, d) ==
    IF d THEN [p EXCEPT !.alertText = Node(txReadyToSubmit),
                        !.dialogButtons = << txCancel, txSubmitExam >>]
    ELSE [p EXCEPT !.alertText = Absent, !.dialogButtons = << >>]

SitePage(c, b, d) == WithDialog([WithContent(EmptyPage, c) EXCEPT !.buttons = b], d)

SitePages == { SitePage(c, b, d) : c \in ContentFacets, b \in ButtonFacets, d \in BOOLEAN }

rTrueFalse == << "1", ".", " " >> \o txNotAllowed \o << "\n", "2", ".", " " >> \o txAllowed
rParis == txParis
msgRateLimit == "OpenAI API rate limit exceeded."

Replies == { ReplyOk(rTrueFalse), ReplyOk(rParis), ReplyOk(<< >>),
             ReplyError(msgRateLimit), ReplyError(""), ReplyUndefined }

\* One lesson of the site: a true/false question, a multiple-choice question
\* under its tag selector, or an unrecognised screen
LessonPages ==
    { SitePage(c, b, d) : c \in { "tof", "choiceTag", "none" },
                          b \in { << btnCheckDisabled >>, << btnCheckAnswers >>,
                                  << btnTryAgain >> },
                          d \in BOOLEAN }

LessonReplies == { ReplyOk(rTrueFalse), ReplyError(msgRateLimit), ReplyUndefined }

Screens(h) == IF h = "site" THEN SitePages ELSE LessonPages
AnswerReplies(h) == IF h = "site" THEN Replies ELSE LessonReplies

\* What each button cascade clicks on each screen a host renders (the
\* cascades computed once per screen)
cascadesOn ==
    [p \in SitePages \cup LessonPages |->
        [check |-> clickCheckAnswersButton(p), next |-> clickNextButton(p),
         submit |-> clickSubmitExamButton(p), unitNext |-> clickUnitExamNext(p)]]

-----------------------------------------------------------------------------
(* The polling loop and the Driver (App.tsx, processCurrentContent and the  *)
(* content handlers).  A tick is one pass: an interval firing or the        *)
(* initial pass of handleStartExam.  Its record holds the position of the   *)
(* async function (pc: the await it is suspended at), what it extracted,    *)
(* and what it has done so far:                                             *)
(*   tryAtStart  a 'try again' control was on the page when the tick began  *)
(*   did         subset of {"extract", "ask", "option", "button"}           *)
(*   err         the answer source failed in this tick                      *)
(* A finished tick's slot is free again.                                    *)

Slots == DOMAIN ticks

IdleTick ==
    [pc |-> "idle", entry |-> "none", tryAtStart |-> FALSE, ctype |-> Null,
     qd |-> NullData, answers |-> << >>, i |-> 0, did |-> {}, err |-> FALSE]

InFlight(t) == ticks[t].pc # "idle"
FreeSlots == { t \in Slots : ~InFlight(t) }
TicksInFlight == { t \in Slots : InFlight(t) }

\* The tick's record once a click has (or has not) been dispatched
WithDid(tk, what, clicked) ==
    IF clicked THEN [tk EXCEPT !.did = @ \cup { what }] ELSE tk

\* The interval is armed by the effect exactly when its condition holds
IntervalArmed ==
    /\ examStarted
    /\ ~processingContent
    /\ ~isProcessingQuestion
    /\ ~needsUserIntervention

\* The second 'try again' check of the interval callback
tryAgainAfter(tk) ==
    IF tk.entry = "interval" /\ hasTryAgainButton(page) THEN TRUE
    ELSE needsUserIntervention

\* A finally block that leaves the busy flag set (not the code's)
keepProcessingContent == TRUE

\* The finally block of the interval callback and of handleStartExam
releaseProcessingContent == FALSE

\* The end of the interval callback / of handleStartExam once
\* processCurrentContent has returned
EndTick(t, tk) ==
    /\ ticks' = [ticks EXCEPT ![t] = IdleTick]
    /\ needsUserIntervention' = tryAgainAfter(tk)
    /\ processingContent' = releaseProcessingContent

\* The tick goes on to its next await
Suspend(t, tk, busy) ==
    /\ ticks' = [ticks EXCEPT ![t] = tk]
    /\ processingContent' = busy
    /\ UNCHANGED needsUserIntervention

\* processCurrentContent returned tk.ctype to its caller
Returned(t, tk, busy) ==
    IF tk.entry = "interval" /\ tk.ctype = UNKNOWN
    THEN Suspend(t, [tk EXCEPT !.pc = "fallbackNext"], busy)
    ELSE EndTick(t, tk)

\* handleOpenAIProcessing up to its await: the flags it sets.  resets: the
\* caller is handleStartExam, whose setAiStatus('idle'), setAiError(null) and
\* setIsProcessingQuestion(false) precede the initial content check.
AskAnswerSource(resets) ==
    /\ isProcessingQuestion' = TRUE
    /\ aiStatus' = "processing"
    /\ aiError' = IF resets THEN Null ELSE aiError
    /\ UNCHANGED resetTimers

NoAsk(resets) ==
    /\ isProcessingQuestion' = IF resets THEN FALSE ELSE isProcessingQuestion
    /\ aiStatus' = IF resets THEN "idle" ELSE aiStatus
    /\ aiError' = IF resets THEN Null ELSE aiError
    /\ UNCHANGED resetTimers

\* handleTrueFalseContent / handleMultipleChoiceContent, for a tick that
\* detected tk.ctype, from the call to the callback's await (pc "ask") or to
\* the return (pc unchanged)
handlerStart(tk, p) ==
    IF hasTryAgainButton(p) THEN tk
    ELSE IF clickExistingNext(p) # 0 THEN WithDid(tk, "button", TRUE)
    ELSE LET qd == IF tk.ctype = TRUE_FALSE
                   THEN extractTrueFalseQuestionData(p)
                   ELSE extractMultipleChoiceQuestionData(p)
             tke == [tk EXCEPT !.did = @ \cup { "extract" }]
         IN  IF qd = NullData THEN tke
             ELSE [tke EXCEPT !.pc = "ask", !.qd = qd, !.did = @ \cup { "ask" }]

\* processCurrentContent from its call to its first await (or its return)
ProcessCurrentContent(t, tk0, busy, resets) ==
    LET detected == detectContentType(page)
        tk == [tk0 EXCEPT !.ctype = detected]
    IN
    IF isExamSubmissionDialogPresent(page)
    THEN Suspend(t, [tk0 EXCEPT !.pc = "dialog", !.ctype = UNKNOWN], busy)
         /\ NoAsk(resets)
    ELSE IF detected \in { TRUE_FALSE, MULTIPLE_CHOICE }
    THEN IF handlerStart(tk, page).pc = "ask"
         THEN Suspend(t, handlerStart(tk, page), busy) /\ AskAnswerSource(resets)
         ELSE Returned(t, handlerStart(tk, page), busy) /\ NoAsk(resets)
    ELSE IF detected = UNIT_EXAM
    THEN LET qd == extractUnitExamQuestionData(page)
         IN  /\ Suspend(t, [tk EXCEPT !.pc = "ask", !.qd = qd,
                                      !.did = @ \cup { "extract", "ask" }],
                        busy)
             /\ AskAnswerSource(resets)
    ELSE IF detected = TEXT_CONTENT
    THEN Suspend(t, [tk EXCEPT !.pc = "textNext"], busy) /\ NoAsk(resets)
    ELSE Returned(t, tk, busy) /\ NoAsk(resets)

\* The setInterval callback of the content processing loop
IntervalTick(t) ==
    /\ IntervalArmed
    /\ FreeSlots # {} /\ t = MinOf(FreeSlots)
    /\ LET tk0 == [IdleTick EXCEPT !.pc = "start", !.entry = "interval",
                                   !.tryAtStart = hasTryAgainButton(page)]
       IN  IF hasTryAgainButton(page)
           THEN /\ ticks' = [ticks EXCEPT ![t] = IdleTick]
                /\ needsUserIntervention' = TRUE
                /\ processingContent' = FALSE
                /\ NoAsk(FALSE)
           ELSE ProcessCurrentContent(t, tk0, TRUE, FALSE)
    /\ passes' = 1 - passes
    /\ UNCHANGED << page, examStarted, host, call, ret, rich,
                    processedContentIds, background, hook >>

\* handleStartExam: the resets, then the initial content check
handleStartExam(t) ==
    /\ ~examStarted
    /\ FreeSlots # {} /\ t = MinOf(FreeSlots)
    /\ examStarted' = TRUE
    /\ ProcessCurrentContent(t, [IdleTick EXCEPT !.pc = "start", !.entry = "initial",
                                     !.tryAtStart = hasTryAgainButton(page)],
                             TRUE, TRUE)
    /\ passes' = 1 - passes
    /\ UNCHANGED << page, host, call, ret, rich,
                    processedContentIds, background, hook >>

\* clickSubmitExamButton's timer: the dialog branch of processCurrentContent
DialogTimer(t) ==
    /\ ticks[t].pc = "dialog"
    /\ Returned(t, WithDid(ticks[t], "button", cascadesOn[page].submit # 0),
                processingContent)
    /\ NoAsk(FALSE)
    /\ UNCHANGED << page, examStarted, host, passes, call, ret, rich,
                    processedContentIds, background, hook >>

Min(a, b) == IF a <= b THEN a ELSE b

\* The last returned answer (not the code's)
lastAnswer(answers) == answers[Len(answers)]

\* answerData.answers[0]
firstAnswer(answers) == answers[1]

\* The option clicks of handleMultipleChoiceContent / handleUnitExamContent on
\* the answer list the callback returned
choiceAnswerClicks(qd, answers) ==
    IF Len(answers) = 0 THEN << >>
    ELSE IF qd.type = MULTIPLE_CHOICE
    THEN selectMultipleChoiceAnswer(qd, firstAnswer(answers))
    ELSE selectUnitExamAnswer(qd, firstAnswer(answers))

\* The answer source replies: the rest of handleOpenAIProcessing, then the
\* handler that awaited it, up to its next await
AnswerArrives(t, reply) ==
    /\ ticks[t].pc = "ask"
    /\ LET tk == ticks[t]
           out == answerOutcome(reply, tk.qd.type)
           tka == [tk EXCEPT !.err = out.failed]
           first == tofClickable(tk.qd, out.answers, 1)
           choiceClicks == choiceAnswerClicks(tk.qd, out.answers)
       IN  /\ aiStatus' = IF out.failed THEN "error" ELSE "success"
           /\ aiError' = IF out.failed THEN out.message ELSE aiError
           /\ resetTimers' = Min(resetTimers + 1, MaxTimers)
           /\ UNCHANGED isProcessingQuestion
           /\ IF tk.qd.type = TRUE_FALSE
              THEN IF Len(out.answers) = 0 \/ first = {}
                   THEN Suspend(t, [tka EXCEPT !.pc = "check", !.qd = NullData],
                                processingContent)
                   ELSE Suspend(t, [tka EXCEPT !.pc = "select", !.answers = out.answers,
                                               !.i = MinOf(first) + 1,
                                               !.did = @ \cup { "option" }],
                                processingContent)
              ELSE IF Len(out.answers) = 0
              THEN Returned(t, tka, processingContent)
              ELSE Suspend(t, WithDid([tka EXCEPT !.pc =
                                          IF tk.qd.type = MULTIPLE_CHOICE
                                          THEN "check" ELSE "unitNext",
                                          !.qd = NullData],
                                      "option", choiceClicks # << >>),
                           processingContent)
    /\ UNCHANGED << page, examStarted, host, passes, call, ret, rich,
                    processedContentIds, background, hook >>

\* The delay after an option click: the next choice of selectTrueFalseAnswers,
\* or the advance of handleUnitExamContent
SelectTimer(t) ==
    /\ ticks[t].pc \in { "select", "unitNext" }
    /\ LET tk == ticks[t]
           rest == tofClickable(tk.qd, tk.answers, tk.i)
       IN  IF tk.pc = "unitNext"
           THEN Returned(t, WithDid(tk, "button", cascadesOn[page].unitNext # 0),
                         processingContent)
           ELSE IF rest = {}
           THEN Suspend(t, [tk EXCEPT !.pc = "check", !.qd = NullData,
                                      !.answers = << >>, !.i = 0],
                        processingContent)
           ELSE Suspend(t, [tk EXCEPT !.i = MinOf(rest) + 1], processingContent)
    /\ NoAsk(FALSE)
    /\ UNCHANGED << page, examStarted, host, passes, call, ret, rich,
                    processedContentIds, background, hook >>

\* The timer of clickCheckAnswersButton
CheckTimer(t) ==
    /\ ticks[t].pc = "check"
    /\ Suspend(t, WithDid([ticks[t] EXCEPT !.pc = "settle"], "button",
                          cascadesOn[page].check # 0),
               processingContent)
    /\ NoAsk(FALSE)
    /\ UNCHANGED << page, examStarted, host, passes, call, ret, rich,
                    processedContentIds, background, hook >>

\* The wait for results after the check: the handler's own 'try again' test
\* only logs, and the handler returns
SettleTimer(t) ==
    /\ ticks[t].pc = "settle"
    /\ Returned(t, ticks[t], processingContent)
    /\ NoAsk(FALSE)
    /\ UNCHANGED << page, examStarted, host, passes, call, ret, rich,
                    processedContentIds, background, hook >>

\* The timer of clickNextButton: handleTextContent, or the interval
\* callback's fallback for unknown content
NextTimer(t) ==
    /\ ticks[t].pc \in { "textNext", "fallbackNext" }
    /\ LET tk == WithDid(ticks[t], "button", cascadesOn[page].next # 0)
       IN  IF ticks[t].pc = "textNext"
           THEN Returned(t, tk, processingContent)
           ELSE EndTick(t, tk)
    /\ NoAsk(FALSE)
    /\ UNCHANGED << page, examStarted, host, passes, call, ret, rich,
                    processedContentIds, background, hook >>

\* setTimeout(() => setIsProcessingQuestion(false), 2000)
ResetTimer ==
    /\ resetTimers > 0
    /\ resetTimers' = resetTimers - 1
    /\ isProcessingQuestion' = FALSE
    /\ UNCHANGED << page, examStarted, processingContent, needsUserIntervention,
                    aiStatus, aiError, ticks, host, passes, call, ret, rich,
                    processedContentIds, background, hook >>

\* The "Reset State" button
handleClearCache ==
    /\ isProcessingQuestion' = FALSE
    /\ processingContent' = FALSE
    /\ UNCHANGED << page, examStarted, needsUserIntervention, aiStatus, aiError,
                    ticks, resetTimers, host, passes, call, ret, rich,
                    processedContentIds, background, hook >>

\* The "Resume Automation" button, rendered while needsUserIntervention
handleResumeAutomation ==
    /\ needsUserIntervention
    /\ needsUserIntervention' = FALSE
    /\ UNCHANGED << page, examStarted, processingContent, isProcessingQuestion,
                    aiStatus, aiError, ticks, resetTimers, host, passes, call, ret, rich,
                    processedContentIds, background, hook >>

-----------------------------------------------------------------------------
(* The host page changes *)

\* The regions of a page the host site re-renders independently
contentRegion(p) == << p.sel, p.unit, p.title, p.question, p.tof, p.rows, p.radios >>
buttonRegion(p) == p.buttons
dialogRegion(p) == << p.alertText, p.dialogButtons >>

regionsChanged(p, q) ==
    { r \in { "content", "buttons", "dialog" } :
        \/ r = "content" /\ contentRegion(p) # contentRegion(q)
        \/ r = "buttons" /\ buttonRegion(p) # buttonRegion(q)
        \/ r = "dialog" /\ dialogRegion(p) # dialogRegion(q) }

\* The screens a host site renders, and the replies the answer source gives
\* to its questions
\* The host page re-renders one region (after a click, or because the user
\* acted on it)
PageChange ==
    /\ page' \in Screens(host)
    /\ Cardinality(regionsChanged(page, page')) = 1
    /\ UNCHANGED << examStarted, processingContent, isProcessingQuestion,
                    needsUserIntervention, aiStatus, aiError, ticks,
                    resetTimers, host, passes, call, ret, rich,
                    processedContentIds, background, hook >>

-----------------------------------------------------------------------------
(* The functions of contentHandler.ts applied one at a time to a page:      *)
(* call is the function applied (and the answer handed to an injector),     *)
(* ret what it returned: the detected type, the extracted data, the option  *)
(* elements an injector clicked, the index of the button a cascade clicked  *)
(* (pressed: the buttons it clicked, in order; resolved: what its promise   *)
(* resolved to).                                                            *)

NoCall == [fn |-> Null, answer |-> << >>]
NoResult == [type |-> Null, data |-> NullData, clicks |-> << >>, idx |-> 0,
             pressed |-> << >>, resolved |-> FALSE]

\* The richer App before "Let's Go" (src/unnamed/part_004)
NoExam == [type |-> Null, selectAll |-> FALSE, whichOfThese |-> FALSE, choices |-> 0]

RichIdle ==
    [examStarted |-> FALSE, automationPaused |-> FALSE, interval |-> "none",
     closure |-> [examStarted |-> FALSE, automationPaused |-> FALSE],
     pc |-> "idle", caller |-> "none", exam |-> NoExam,
     processedResponse |-> << >>, currentTry |-> 0, prompts |-> << >>]

\* The background context once its script has run: no message received yet
\* (hasKey: process.env.CEB_OPENAI_API_KEY was set when the extension was built)
BackgroundLoaded(hasKey) == [hasKey |-> hasKey, received |-> << >>]

\* useMessageHandler after its first render (useState initial values): no
\* message typed, no response shown, not loading, sendMessage never called
NoResponse == [kind |-> "none", text |-> << >>]

HookIdle == [message |-> << >>, response |-> NoResponse, isLoading |-> FALSE,
             calls |-> << >>]

\* The content script before the exam is started
IdleScript ==
    /\ examStarted = FALSE
    /\ processingContent = FALSE
    /\ isProcessingQuestion = FALSE
    /\ needsUserIntervention = FALSE
    /\ aiStatus = "idle"
    /\ aiError = Null
    /\ resetTimers = 0
    /\ passes = 0
    /\ call = NoCall
    /\ ret = NoResult
    /\ rich = RichIdle
    /\ processedContentIds = {}
    /\ hook = HookIdle

\* The extension before the exam is started, built with an API key
Idle ==
    /\ IdleScript
    /\ background = BackgroundLoaded(TRUE)

Chars == { "A", "a", "b" }

RECURSIVE StringsUpTo(_)
StringsUpTo(n) ==
    IF n = 0 THEN { << >> }
    ELSE StringsUpTo(n - 1)
            \cup { Append(s, c) : s \in { x \in StringsUpTo(n - 1) : Len(x) = n - 1 },
                                  c \in Chars }

Strings == StringsUpTo(MaxStrLen)

RECURSIVE ListsUpTo(_, _)
ListsUpTo(S, n) ==
    IF n = 0 THEN { << >> }
    ELSE ListsUpTo(S, n - 1)
            \cup { Append(l, x) : l \in { y \in ListsUpTo(S, n - 1) : Len(y) = n - 1 },
                                  x \in S }

\* Pages for the classifier: which containers (at most n of them), unit-exam
\* candidates and navigation buttons are present
AllSelectors ==
    { selTofClass, selTofTag, selMcClass, selMcTag, selTextClass, selTextTag, selTextEdit }

UnitFacets ==
    { << NoElement, NoElement, NoElement, NoElement >>,
      << UnitElement(TRUE, FALSE), NoElement, NoElement, NoElement >>,
      << UnitElement(FALSE, FALSE), NoElement, NoElement, NoElement >>,
      << UnitElement(FALSE, FALSE), NoElement, NoElement, UnitElement(FALSE, TRUE) >>,
      << NoElement, NoElement, NoElement, UnitElement(FALSE, TRUE) >> }

ClassifierPages(n) ==
    { [EmptyPage EXCEPT !.sel = s, !.unit = u, !.buttons = b] :
        s \in { x \in SUBSET AllSelectors : Cardinality(x) <= n },
        u \in UnitFacets,
        b \in { << >>, << btnNext >>, << btnPrevious >> } }

\* Pages for the extractors: the container and the optional nodes
ExtractorPages ==
    { [WithContent(EmptyPage, c) EXCEPT !.sel = s, !.title = t, !.question = q] :
        c \in { "tof", "choice", "exam", "none" },
        s \in { { }, { selTofClass }, { selMcClass }, { selMcTag } },
        t \in { Absent, Node(txTitle), Node(<< " " >>) },
        q \in { Absent, Node(txQuestion) } }

\* Pages for the injectors: the option texts (at most n, drawn from S) of one
\* question
ChoicePagesOver(S, n) ==
    { [EmptyPage EXCEPT !.sel = { selTofClass },
                        !.tof = << [text |-> Node(txQuestion), options |-> l] >>] :
        l \in ListsUpTo(S, n) }
    \cup { [EmptyPage EXCEPT !.sel = { selMcClass }, !.rows = l] :
             l \in ListsUpTo({ Node(x) : x \in S } \cup { Absent }, n) }
    \cup { [EmptyPage EXCEPT !.unit = << UnitElement(TRUE, FALSE), NoElement,
                                         NoElement, NoElement >>,
                             !.radios = l] :
             l \in ListsUpTo(S, n) }

ChoicePages(n) == ChoicePagesOver(Strings, n)

\* Pages for the button cascades: the buttons present (at most n), in
\* document order
ButtonKinds ==
    { btnCheckAnswers, btnCheckDisabled, btnNext, btnTryAgain, btnFinalExam,
      btnUnitExam, btnLesson, btnPrevious, btnPlainCheck, btnPlainSubmit }

ButtonPages(n) ==
    { [EmptyPage EXCEPT !.buttons = l] : l \in ListsUpTo(ButtonKinds, n) }

Applied(fn, answer, result) ==
    /\ call = NoCall
    /\ call' = [fn |-> fn, answer |-> answer]
    /\ ret' = result
    /\ UNCHANGED << host, page, appVars, rich,
                    processedContentIds, background, hook >>

ApplyDetectContentType ==
    Applied("detectContentType", << >>,
            [NoResult EXCEPT !.type = detectContentType(page)])

Extractors ==
    { "extractTrueFalseQuestionData", "extractMultipleChoiceQuestionData",
      "extractUnitExamQuestionData" }

extract(fn, p) ==
    IF fn = "extractTrueFalseQuestionData" THEN extractTrueFalseQuestionData(p)
    ELSE IF fn = "extractMultipleChoiceQuestionData"
    THEN extractMultipleChoiceQuestionData(p)
    ELSE extractUnitExamQuestionData(p)

ApplyExtract(fn) ==
    Applied(fn, << >>, [NoResult EXCEPT !.data = extract(fn, page)])

Injectors ==
    { "selectTrueFalseAnswers", "selectMultipleChoiceAnswer", "selectUnitExamAnswer" }

\* An injector on the data its handler extracted from the page
inject(fn, p, answer) ==
    IF fn = "selectTrueFalseAnswers"
    THEN selectTrueFalseAnswers(extractTrueFalseQuestionData(p), << answer >>)
    ELSE IF fn = "selectMultipleChoiceAnswer"
    THEN selectMultipleChoiceAnswer(extractMultipleChoiceQuestionData(p), answer)
    ELSE selectUnitExamAnswer(extractUnitExamQuestionData(p), answer)

ApplyInject(fn, answer) ==
    Applied(fn, answer, [NoResult EXCEPT !.clicks = inject(fn, page, answer)])

Cascades ==
    { "clickCheckAnswersButton", "clickNextButton", "clickExistingNext",
      "clickUnitExamNext" }

cascade(fn, p) ==
    IF fn = "clickCheckAnswersButton" THEN clickCheckAnswersButton(p)
    ELSE IF fn = "clickNextButton" THEN clickNextButton(p)
    ELSE IF fn = "clickExistingNext" THEN clickExistingNext(p)
    ELSE clickUnitExamNext(p)

\* A promise that resolves true whatever was clicked (not the code's)
alwaysResolvesTrue(idx) ==
    [pressed |-> IF idx = 0 THEN << >> ELSE << idx >>, resolved |-> TRUE]

\* clickCheckAnswersButton and clickNextButton: every click is followed by
\* resolve(true) and ends the callback, and the path without a click ends in
\* resolve(false)
clickThenResolve(idx) ==
    [pressed |-> IF idx = 0 THEN << >> ELSE << idx >>, resolved |-> idx # 0]

PromiseCascades == { "clickCheckAnswersButton", "clickNextButton" }

ApplyCascade(fn) ==
    LET idx == cascade(fn, page)
    IN  Applied(fn, << >>,
                IF fn \in PromiseCascades
                THEN [NoResult EXCEPT !.idx = idx,
                                      !.pressed = clickThenResolve(idx).pressed,
                                      !.resolved = clickThenResolve(idx).resolved]
                ELSE [NoResult EXCEPT !.idx = idx])

InitBench ==
    /\ host = "bench"
    /\ page \in ClassifierPages(MaxContainers) \cup ExtractorPages
                    \cup ChoicePages(MaxChoices) \cup ButtonPages(MaxButtons)
    /\ ticks = [t \in { 1 } |-> IdleTick]
    /\ Idle

NextBench ==
    \/ ApplyDetectContentType
    \/ \E fn \in Extractors : ApplyExtract(fn)
    \/ \E fn \in Injectors, answer \in Strings : ApplyInject(fn, answer)
    \/ \E fn \in Cascades : ApplyCascade(fn)

SpecBench == InitBench /\ [][NextBench]_vars

\* The injectors alone: option texts of at most MaxOptLen characters, answers
\* of up to one character more
InitInject ==
    /\ host = "bench"
    /\ page \in ChoicePagesOver(StringsUpTo(MaxOptLen), MaxChoices)
    /\ ticks = [t \in { 1 } |-> IdleTick]
    /\ Idle

\* The content type whose handler calls the injector
injectorType(fn) ==
    IF fn = "selectTrueFalseAnswers" THEN TRUE_FALSE
    ELSE IF fn = "selectMultipleChoiceAnswer" THEN MULTIPLE_CHOICE
    ELSE UNIT_EXAM

NextInject ==
    \E fn \in Injectors :
        /\ call = NoCall
        /\ detectContentType(page) = injectorType(fn)
        /\ \E answer \in StringsUpTo(MaxOptLen + 1) : ApplyInject(fn, answer)

SpecInject == InitInject /\ [][NextInject]_vars

\* The multiple-choice and unit-exam handlers from the callback's return on:
\* every list of at most MaxAnswers answers, on option texts of at most one
\* character
ChoiceHandlers == { "handleMultipleChoiceContent", "handleUnitExamContent" }

handlerType(fn) ==
    IF fn = "handleMultipleChoiceContent" THEN MULTIPLE_CHOICE ELSE UNIT_EXAM

handlerData(fn, p) ==
    IF fn = "handleMultipleChoiceContent" THEN extractMultipleChoiceQuestionData(p)
    ELSE extractUnitExamQuestionData(p)

InitAnswers ==
    /\ host = "bench"
    /\ page \in ChoicePagesOver(StringsUpTo(1), MaxChoices)
    /\ ticks = [t \in { 1 } |-> IdleTick]
    /\ Idle

AnswersReturned(fn, answers) ==
    /\ call = NoCall
    /\ handlerData(fn, page) # NullData
    /\ call' = [fn |-> fn, answer |-> << >>]
    /\ ticks' = [ticks EXCEPT ![1] = [@ EXCEPT !.pc = "answered",
                                               !.ctype = handlerType(fn),
                                               !.qd = handlerData(fn, page),
                                               !.answers = answers]]
    /\ ret' = [NoResult EXCEPT
                  !.clicks = choiceAnswerClicks(handlerData(fn, page), answers)]
    /\ UNCHANGED << examStarted, processingContent, isProcessingQuestion,
                    needsUserIntervention, aiStatus, aiError, resetTimers, passes,
                    page, host, rich,
                    processedContentIds, background, hook >>

NextAnswers ==
    \E fn \in ChoiceHandlers :
        /\ detectContentType(page) = handlerType(fn)
        /\ \E answers \in ListsUpTo(StringsUpTo(1), MaxAnswers) :
              AnswersReturned(fn, answers)

SpecAnswers == InitAnswers /\ [][NextAnswers]_vars

\* The true/false and multiple-choice handlers from their call to their first
\* await or return, on a question with every list of at most MaxButtons
\* buttons
QuestionHandlers == { "handleTrueFalseContent", "handleMultipleChoiceContent" }

questionHandlerType(fn) ==
    IF fn = "handleTrueFalseContent" THEN TRUE_FALSE ELSE MULTIPLE_CHOICE

HandlerPages(n) ==
    { [WithContent(EmptyPage, c) EXCEPT !.buttons = l] :
        c \in { "tof", "choice", "choiceTag" }, l \in ListsUpTo(ButtonKinds, n) }

InitHandler ==
    /\ host = "bench"
    /\ page \in HandlerPages(MaxButtons)
    /\ ticks = [t \in { 1 } |-> IdleTick]
    /\ Idle

HandlerStarts(fn) ==
    /\ call = NoCall
    /\ detectContentType(page) = questionHandlerType(fn)
    /\ call' = [fn |-> fn, answer |-> << >>]
    /\ ticks' = [ticks EXCEPT ![1] =
                    handlerStart([IdleTick EXCEPT !.pc = "start", !.entry = "handler",
                                                  !.tryAtStart = hasTryAgainButton(page),
                                                  !.ctype = questionHandlerType(fn)],
                                 page)]
    /\ UNCHANGED << examStarted, processingContent, isProcessingQuestion,
                    needsUserIntervention, aiStatus, aiError, resetTimers, passes,
                    page, host, ret, rich,
                    processedContentIds, background, hook >>

NextHandler == \E fn \in QuestionHandlers : HandlerStarts(fn)

SpecHandler == InitHandler /\ [][NextHandler]_vars

\* The classifier alone, on every combination of containers
\* generateContentId alone, on every pair of texts of at most MaxIdLen + 1
\* characters: letters in both cases and white space
IdChars == { "A", "a", "b", " " }

RECURSIVE IdStrings(_)
IdStrings(n) ==
    IF n = 0 THEN { << >> }
    ELSE IdStrings(n - 1)
            \cup { Append(s, c) : s \in { x \in IdStrings(n - 1) : Len(x) = n - 1 },
                                  c \in IdChars }

IdTexts == IdStrings(MaxIdLen + 1)

ApplyGenerateContentId(title, question) ==
    Applied("generateContentId", << >>,
            [NoResult EXCEPT !.data =
                [NullData EXCEPT !.title = title, !.question = question,
                                 !.contentId = generateContentId(title, question)]])

InitContentId ==
    /\ host = "bench"
    /\ page = EmptyPage
    /\ ticks = [t \in { 1 } |-> IdleTick]
    /\ Idle

NextContentId ==
    /\ call = NoCall
    /\ \E title \in IdTexts, question \in IdTexts :
          ApplyGenerateContentId(title, question)

SpecContentId == InitContentId /\ [][NextContentId]_vars

\* The processed-id memo: the two exported functions called with the ids of
\* short titles and questions (at most MaxMarked ids are marked), next to the
\* start of the exam on a true/false lesson and the "Reset State" button
MemoIds == { generateContentId(title, question) :
                title \in IdStrings(1), question \in IdStrings(1) }

markContentAsProcessed(contentId) ==
    /\ Cardinality(processedContentIds \cup { contentId }) <= MaxMarked
    /\ processedContentIds' = addContentId(processedContentIds, contentId)
    /\ call' = [fn |-> "markContentAsProcessed", answer |-> contentId]
    /\ ret' = NoResult
    /\ UNCHANGED << host, page, appVars, rich, background, hook >>

\* ret.idx: 1 for true, 0 for false
ApplyHasContentBeenProcessed(contentId) ==
    /\ call' = [fn |-> "hasContentBeenProcessed", answer |-> contentId]
    /\ ret' = [NoResult EXCEPT
                  !.idx = IF hasContentBeenProcessed(contentId) THEN 1 ELSE 0]
    /\ UNCHANGED << host, page, appVars, rich, processedContentIds, background, hook >>

InitMemo ==
    /\ host = "lesson"
    /\ page = SitePage("tof", << btnCheckAnswers >>, FALSE)
    /\ ticks = [t \in { 1 } |-> IdleTick]
    /\ Idle

NextMemo ==
    \/ \E contentId \in MemoIds : markContentAsProcessed(contentId)
    \/ \E contentId \in MemoIds : ApplyHasContentBeenProcessed(contentId)
    \/ \E t \in Slots : handleStartExam(t)
    \/ handleClearCache

SpecMemo == InitMemo /\ [][NextMemo]_vars

\* The two promise-returning cascades alone, on every list of at most
\* MaxButtons buttons, each kind of button enabled or disabled
CascadeButtons ==
    ButtonKinds \cup { [b EXCEPT !.disabled = TRUE] : b \in ButtonKinds }

CascadePages(n) ==
    { [EmptyPage EXCEPT !.buttons = l] : l \in ListsUpTo(CascadeButtons, n) }

InitCascade ==
    /\ host = "bench"
    /\ page \in CascadePages(MaxButtons)
    /\ ticks = [t \in { 1 } |-> IdleTick]
    /\ Idle

NextCascade ==
    \E fn \in PromiseCascades : ApplyCascade(fn)

SpecCascade == InitCascade /\ [][NextCascade]_vars

\* handleOpenAIProcessing from the reply on: the answer source's reply is a
\* list of at most MaxChoices numbered lines 'k. text', some indented, in any
\* order; call.answer holds the lines and the pass's record the answer list
\* handed back to the content handler
ReplyLine(number, text, indent) == [number |-> number, text |-> text, indent |-> indent]

ReplyLines ==
    { ReplyLine(number, text, indent) :
        number \in 1..MaxChoices, text \in { txAllowed, txNotAllowed },
        indent \in { << >>, << " " >> } }

numeral(k) == << DigitSeq[k + 1] >>

lineText(line) == line.indent \o numeral(line.number) \o << ".", " " >> \o line.text

RECURSIVE replyText(_)
replyText(lines) ==
    IF lines = << >> THEN << >>
    ELSE IF Len(lines) = 1 THEN lineText(lines[1])
    ELSE lineText(lines[1]) \o << "\n" >> \o replyText(Tail(lines))

ReplyArrives(lines, questionType) ==
    /\ call = NoCall
    /\ call' = [fn |-> "handleOpenAIProcessing", answer |-> lines]
    /\ ticks' = [ticks EXCEPT ![1] =
                    [@ EXCEPT !.pc = "answered", !.ctype = questionType,
                              !.answers = answerOutcome(ReplyOk(replyText(lines)),
                                                        questionType).answers]]
    /\ ret' = NoResult
    /\ UNCHANGED << examStarted, processingContent, isProcessingQuestion,
                    needsUserIntervention, aiStatus, aiError, resetTimers, passes,
                    page, host, rich, processedContentIds, background, hook >>

InitParse ==
    /\ host = "bench"
    /\ page = EmptyPage
    /\ ticks = [t \in { 1 } |-> IdleTick]
    /\ Idle

NextParse ==
    /\ call = NoCall
    /\ \E lines \in ListsUpTo(ReplyLines, MaxChoices),
          questionType \in { TRUE_FALSE, UNIT_EXAM } :
          ReplyArrives(lines, questionType)

SpecParse == InitParse /\ [][NextParse]_vars

InitClassifier ==
    /\ host = "bench"
    /\ page \in ClassifierPages(MaxContainers)
    /\ ticks = [t \in { 1 } |-> IdleTick]
    /\ Idle

SpecClassifier == InitClassifier /\ [][ApplyDetectContentType]_vars

-----------------------------------------------------------------------------
(* selectTrueFalseAnswers step by step: one click, then the 300 ms delay    *)
(* before the next choice; ret.clicks are the elements clicked so far, the  *)
(* tick record holds the loop's position.                                   *)

ScenarioOptions ==
    { << txAllowed, txNotAllowed >>, << txNotAllowed, txAllowed >>, << >> }

\* True/false pages of at most n scenarios
ScenarioPages(n) ==
    { [EmptyPage EXCEPT !.sel = { selTofClass },
                        !.tof = [k \in 1..Len(l) |->
                                    [text |-> Node(txQuestion), options |-> l[k]]]] :
        l \in ListsUpTo(ScenarioOptions, n) }

\* Answers as the answer source words them: exact, in lower case, neither
ScenarioAnswers == { txAllowed, txNotAllowed, toLowerCase(txAllowed), << "b" >> }

\* The call, up to the first await (or the return on an empty answer list)
SelectBegin(answers) ==
    /\ call = NoCall
    /\ call' = [fn |-> "selectTrueFalseAnswers", answer |-> << >>]
    /\ LET qd == extractTrueFalseQuestionData(page)
           first == tofClickable(qd, answers, 1)
       IN  IF Len(answers) = 0
           THEN /\ ticks' = [ticks EXCEPT ![1] = [IdleTick EXCEPT !.pc = "selected"]]
                /\ ret' = ret
           ELSE IF first = {}
           THEN /\ ticks' = [ticks EXCEPT ![1] =
                               [IdleTick EXCEPT !.pc = "selectEnd", !.qd = qd,
                                                !.answers = answers]]
                /\ ret' = ret
           ELSE /\ ticks' = [ticks EXCEPT ![1] =
                               [IdleTick EXCEPT !.pc = "select", !.qd = qd,
                                                !.answers = answers,
                                                !.i = MinOf(first) + 1]]
                /\ ret' = [ret EXCEPT !.clicks = << tofClick(qd, answers, MinOf(first)) >>]
    /\ UNCHANGED << host, page, examStarted, processingContent, isProcessingQuestion,
                    needsUserIntervention, aiStatus, aiError, resetTimers, passes,
                    rich,
                    processedContentIds, background, hook >>

\* The 300 ms delay after a click ends: the loop goes on to the next choice
\* it clicks an option for, or to the final delay
SelectDelay ==
    /\ call.fn = "selectTrueFalseAnswers"
    /\ ticks[1].pc = "select"
    /\ LET tk == ticks[1]
           rest == tofClickable(tk.qd, tk.answers, tk.i)
       IN  IF rest = {}
           THEN /\ ticks' = [ticks EXCEPT ![1] = [tk EXCEPT !.pc = "selectEnd"]]
                /\ ret' = ret
           ELSE /\ ticks' = [ticks EXCEPT ![1] = [tk EXCEPT !.i = MinOf(rest) + 1]]
                /\ ret' = [ret EXCEPT !.clicks =
                               Append(@, tofClick(tk.qd, tk.answers, MinOf(rest)))]
    /\ UNCHANGED << host, page, examStarted, processingContent, isProcessingQuestion,
                    needsUserIntervention, aiStatus, aiError, resetTimers, passes, call,
                    rich,
                    processedContentIds, background, hook >>

\* The final 500 ms delay ends and selectTrueFalseAnswers returns
SelectEnd ==
    /\ call.fn = "selectTrueFalseAnswers"
    /\ ticks[1].pc = "selectEnd"
    /\ ticks' = [ticks EXCEPT ![1] = [@ EXCEPT !.pc = "selected"]]
    /\ UNCHANGED << host, page, examStarted, processingContent, isProcessingQuestion,
                    needsUserIntervention, aiStatus, aiError, resetTimers, passes,
                    call, ret, rich,
                    processedContentIds, background, hook >>

InitSelect ==
    /\ host = "bench"
    /\ page \in ScenarioPages(MaxChoices)
    /\ ticks = [t \in { 1 } |-> IdleTick]
    /\ Idle

NextSelect ==
    \/ \E answers \in ListsUpTo(ScenarioAnswers, MaxChoices) : SelectBegin(answers)
    \/ SelectDelay
    \/ SelectEnd

SpecSelect == InitSelect /\ [][NextSelect]_vars

-----------------------------------------------------------------------------
(* The content script on the host site *)

Init ==
    /\ host = "site"
    /\ page \in Screens(host)
    /\ ticks = [t \in { 1 } |-> IdleTick]
    /\ Idle

\* The same script on one lesson, with room for a second pass of the polling
\* loop to start before the first has finished
InitLesson ==
    /\ host = "lesson"
    /\ page \in Screens(host)
    /\ ticks = [t \in 1..MaxTicks |-> IdleTick]
    /\ Idle

Next ==
    \/ \E t \in Slots : handleStartExam(t)
    \/ \E t \in Slots : IntervalTick(t)
    \/ \E t \in Slots : DialogTimer(t)
    \/ \E t \in Slots, reply \in AnswerReplies(host) : AnswerArrives(t, reply)
    \/ \E t \in Slots : SelectTimer(t)
    \/ \E t \in Slots : CheckTimer(t)
    \/ \E t \in Slots : SettleTimer(t)
    \/ \E t \in Slots : NextTimer(t)
    \/ ResetTimer
    \/ handleClearCache
    \/ handleResumeAutomation
    \/ PageChange

Spec == Init /\ [][Next]_vars

SpecLesson == InitLesson /\ [][Next]_vars

\* Every timer that is pending fires, the interval fires while it is armed,
\* and the answer source replies to a question it was asked
Fairness ==
    /\ WF_vars(\E t \in Slots : IntervalTick(t))
    /\ WF_vars(\E t \in Slots : DialogTimer(t))
    /\ WF_vars(\E t \in Slots, reply \in AnswerReplies(host) : AnswerArrives(t, reply))
    /\ WF_vars(\E t \in Slots : SelectTimer(t))
    /\ WF_vars(\E t \in Slots : CheckTimer(t))
    /\ WF_vars(\E t \in Slots : SettleTimer(t))
    /\ WF_vars(\E t \in Slots : NextTimer(t))
    /\ WF_vars(ResetTimer)

\* One pass at a time on one lesson
InitFair ==
    /\ host = "lesson"
    /\ page \in Screens(host)
    /\ ticks = [t \in { 1 } |-> IdleTick]
    /\ Idle

FairSpec == InitFair /\ [][Next]_vars /\ Fairness

-----------------------------------------------------------------------------
(* The one-second timer surface: the richer App of src/unnamed/part_004.    *)
(* Its state is the record rich; what extractExamData reads off the page is *)
(* an input of each step.                                                   *)

maxRetries == 2

\* String.prototype.split(c)
RECURSIVE splitOn(_, _)
splitOn(s, c) ==
    LET at == { i \in 1..Len(s) : s[i] = c }
    IN  IF at = {} THEN << s >>
        ELSE << SubSeq(s, 1, MinOf(at) - 1) >>
                 \o splitOn(SubSeq(s, MinOf(at) + 1, Len(s)), c)

\* /^\d+-[A-Z]$/.test(s)
isNumberLetterPair(s) ==
    LET d == prefixLen(s, Digits)
    IN  /\ d > 0
        /\ Len(s) = d + 2
        /\ s[d + 1] = "-"
        /\ \E i \in 1..Len(UpperCase) : UpperCase[i] = s[d + 2]

digitValue(c) == (CHOOSE i \in 1..10 : DigitSeq[i] = c) - 1

RECURSIVE digitsValue(_)
digitsValue(s) ==
    IF s = << >> THEN 0
    ELSE 10 * digitsValue(SubSeq(s, 1, Len(s) - 1)) + digitValue(s[Len(s)])

NaN == [nan |-> TRUE, n |-> 0]

\* parseInt(s): leading white space, a sign, then the longest run of digits
parseInt(s) ==
    LET t == trimStart(s)
        signed == t # << >> /\ Head(t) \in { "-", "+" }
        u == IF signed THEN Tail(t) ELSE t
        d == prefixLen(u, Digits)
        v == digitsValue(SubSeq(u, 1, d))
    IN  IF d = 0 THEN NaN
        ELSE [nan |-> FALSE, n |-> IF signed /\ Head(t) = "-" THEN 0 - v ELSE v]

trimmedParts(text) ==
    LET parts == splitOn(text, ",") IN [i \in 1..Len(parts) |-> trim(parts[i])]

isMultiSelect(exam) == exam.selectAll \/ exam.whichOfThese

outOfRange(num, exam) == num.n < 1 \/ num.n > exam.choices

\* The try block of handleAnswer throws on this reply text: the format check
\* of the exam's branch, or the range check of an answer number
attemptThrows(exam, text) ==
    IF exam.type \in { "true-false", "matching" }
    THEN \E i \in 1..Len(trimmedParts(text)) : ~isNumberLetterPair(trimmedParts(text)[i])
    ELSE IF isMultiSelect(exam)
    THEN LET answerNumbers == [i \in 1..Len(trimmedParts(text)) |->
                                  parseInt(trimmedParts(text)[i])]
         IN  \/ \E i \in 1..Len(answerNumbers) : answerNumbers[i].nan
             \/ \E i \in 1..Len(answerNumbers) : outOfRange(answerNumbers[i], exam)
    ELSE LET answerNumber == parseInt(trim(text))
         IN  answerNumber.nan \/ outOfRange(answerNumber, exam)

\* The retry prompt of the catch block
retryPrompt(exam) ==
    IF exam.type = "true-false" THEN "format 1-A, 2-B, 3-A, 4-B for each scenario"
    ELSE IF exam.type = "matching" THEN "format 1-A, 2-B, 3-C for each item"
    ELSE IF exam.selectAll THEN "numbers of the correct answers"
    ELSE "number of the correct answer"

\* What extractExamData returns on the page of the moment: null (NoExam), or
\* an exam of a type with its number of choices; the question's wording only
\* as the two tests made on it
RichExams ==
    { [type |-> ty, selectAll |-> sa, whichOfThese |-> FALSE, choices |-> n] :
        ty \in { "true-false", "matching", "multiple-choice", "yes-no" },
        sa \in BOOLEAN, n \in 1..MaxChoices }
    \cup { [type |-> "multiple-choice", selectAll |-> FALSE, whichOfThese |-> TRUE,
            choices |-> MaxChoices] }

TextOnly == [type |-> "text-only", selectAll |-> FALSE, whichOfThese |-> FALSE, choices |-> 0]

\* The reply texts of the answer source, and its replies
t1A == << "1", "-", "A" >>
t1a == << "1", "-", "a" >>
t1A2B == << "1", "-", "A", ",", " ", "2", "-", "B" >>
t12 == << "1", ",", "2" >>
t2 == << "2" >>
t9 == << "9" >>
tParis == << "2", ".", " ", "P" >>
tA == << "A" >>

RichTexts == { t1A, t1a, t1A2B, t12, t2, t9, tParis, tA, << >> }
RichReplies == { ReplyOk(t) : t \in RichTexts } \cup { ReplyError(msgRateLimit) }

\* The caller's continuation once processContent has returned (ok) or thrown:
\* handleStartExam goes on to setExamStarted(true) and setInterval, or rejects;
\* the interval callback's catch pauses the automation
Continue(r, ok) ==
    IF r.caller = "handleStartExam"
    THEN IF ok
         THEN [r EXCEPT !.pc = "idle", !.caller = "none", !.examStarted = TRUE,
                        !.interval = "set"]
         ELSE [r EXCEPT !.pc = "idle", !.caller = "none"]
    ELSE IF r.caller = "interval"
    THEN [r EXCEPT !.pc = "idle", !.caller = "none",
                   !.automationPaused = IF ok THEN @ ELSE TRUE]
    ELSE [r EXCEPT !.pc = IF ok THEN "done" ELSE "thrown"]

\* handleAnswer(response) up to the first pass of its loop
handleAnswer(r, text, exam) ==
    IF text = << >> THEN Continue(r, FALSE)
    ELSE IF exam = NoExam THEN Continue(r, FALSE)
    ELSE [r EXCEPT !.pc = "attempt", !.exam = exam, !.processedResponse = text,
                   !.currentTry = 0, !.prompts = << >>]

richFrame ==
    UNCHANGED << host, page, examStarted, processingContent, isProcessingQuestion,
                 needsUserIntervention, aiStatus, aiError, ticks, resetTimers, passes,
                 call, ret, processedContentIds, background, hook >>

\* handleAnswer is called with a reply on a page
HandleAnswerCalled(text, exam) ==
    /\ rich.pc = "idle"
    /\ rich' = handleAnswer(rich, text, exam)
    /\ richFrame

\* attemptThrows on every exam and reply text (computed once)
attemptThrowsOn ==
    [exam \in RichExams, text \in RichTexts |-> attemptThrows(exam, text)]

\* A catch block that retries once more than the code's
retryOnceMore(currentTry) == currentTry <= maxRetries

\* if (currentTry < maxRetries)
mayRetry(currentTry) == currentTry < maxRetries

\* One pass of the while loop: the try block on processedResponse, and the
\* catch block up to its await.  wrong: the page shows an incorrect answer
\* after the check, and the branch pauses the automation and returns.
HandleAnswerAttempt(wrong) ==
    /\ rich.pc = "attempt"
    /\ rich' =
         IF ~attemptThrowsOn[rich.exam, rich.processedResponse]
         THEN Continue([rich EXCEPT !.automationPaused = IF wrong THEN TRUE ELSE @],
                       TRUE)
         ELSE IF mayRetry(rich.currentTry)
         THEN [rich EXCEPT !.currentTry = @ + 1,
                           !.prompts = Append(@, retryPrompt(rich.exam)),
                           !.pc = "retry"]
         ELSE Continue(rich, FALSE)
    /\ richFrame

\* sendMessage(retryPrompt) settles: it rejects on an error reply (the catch
\* rethrows), or resolves with the reply, which the next pass processes
RetryReplyArrives(reply) ==
    /\ rich.pc = "retry"
    /\ rich' = IF reply.status = "error" THEN Continue(rich, FALSE)
               ELSE [rich EXCEPT !.processedResponse = reply.aiResponse,
                                 !.pc = "attempt"]
    /\ richFrame

\* What the page of the moment holds for the timer surface: none of the
\* content containers, the lesson list, a container extractExamData cannot
\* read (NoExam), text-only content, or an exam
NoContent == [type |-> "absent", selectAll |-> FALSE, whichOfThese |-> FALSE, choices |-> 0]
LessonList == [type |-> "lessons", selectAll |-> FALSE, whichOfThese |-> FALSE, choices |-> 0]

RichContents == { NoContent, LessonList, NoExam, TextOnly } \cup RichExams

\* processContent, called with the state its closure captured, up to its
\* first await or its return
processContent(r, content) ==
    IF r.closure.automationPaused THEN Continue(r, TRUE)
    ELSE IF content = LessonList THEN Continue(r, TRUE)
    ELSE IF content \in { NoExam, NoContent } THEN Continue(r, FALSE)
    ELSE IF content = TextOnly THEN [r EXCEPT !.pc = "text"]
    ELSE [r EXCEPT !.pc = "ask", !.exam = content]

\* handleStartExam ("Let's Go", enabled while examStarted is false): the
\* initial content check, then setExamStarted(true) and setInterval.  The
\* callbacks it creates close over the state of the render it runs in.
richHandleStartExam(content) ==
    /\ ~rich.examStarted
    /\ rich.pc = "idle"
    /\ LET r == [rich EXCEPT !.caller = "handleStartExam",
                             !.closure = [examStarted |-> rich.examStarted,
                                          automationPaused |-> rich.automationPaused]]
       IN  rich' = IF content \in { NoContent, LessonList }
                   THEN Continue(r, TRUE)
                   ELSE processContent(r, content)
    /\ richFrame

\* The delay of handleTextContent ends: the next button is clicked (or not)
\* and processContent returns
TextDelayEnds ==
    /\ rich.pc = "text"
    /\ rich' = Continue(rich, TRUE)
    /\ richFrame

\* sendToOpenAI settles: a rejection leaves processContent by its throw, a
\* reply is handed to handleAnswer, which reads the exam off the page again
FirstReplyArrives(reply, exam) ==
    /\ rich.pc = "ask"
    /\ rich' = IF reply.status = "error" THEN Continue(rich, FALSE)
               ELSE handleAnswer(rich, reply.aiResponse, exam)
    /\ richFrame

\* The setInterval callback of handleStartExam (no pass in flight)
IntervalFires(content) ==
    /\ rich.interval = "set"
    /\ rich.pc = "idle"
    /\ rich' =
         IF ~rich.closure.examStarted THEN [rich EXCEPT !.interval = "cleared"]
         ELSE IF rich.closure.automationPaused \/ content = NoContent THEN rich
         ELSE processContent([rich EXCEPT !.caller = "interval"], content)
    /\ richFrame

InitTimer ==
    /\ host = "bench"
    /\ page = EmptyPage
    /\ ticks = [t \in { 1 } |-> IdleTick]
    /\ Idle

NextRich ==
    \/ \E content \in RichContents : richHandleStartExam(content)
    \/ TextDelayEnds
    \/ \E reply \in RichReplies, exam \in { rich.exam, NoExam } :
          FirstReplyArrives(reply, exam)
    \/ \E wrong \in BOOLEAN : HandleAnswerAttempt(wrong)
    \/ \E reply \in RichReplies : RetryReplyArrives(reply)
    \/ \E content \in RichContents : IntervalFires(content)

SpecTimer == InitTimer /\ [][NextRich]_vars

\* handleAnswer alone, on every exam and every first reply
InitAnswer ==
    /\ host = "bench"
    /\ page = EmptyPage
    /\ ticks = [t \in { 1 } |-> IdleTick]
    /\ Idle

NextAnswer ==
    \/ \E text \in RichTexts, exam \in RichExams \cup { NoExam } :
          HandleAnswerCalled(text, exam)
    \/ \E wrong \in BOOLEAN : HandleAnswerAttempt(wrong)
    \/ \E reply \in RichReplies : RetryReplyArrives(reply)

SpecAnswer == InitAnswer /\ [][NextAnswer]_vars

\* The answer source replies to every retry prompt, and the loop runs
FairAnswer ==
    /\ SpecAnswer
    /\ WF_vars(\E wrong \in BOOLEAN : HandleAnswerAttempt(wrong))
    /\ WF_vars(\E reply \in RichReplies : RetryReplyArrives(reply))

-----------------------------------------------------------------------------
(* One pass of handleAnswer's try block with its clicks.  What the pass     *)
(* finds on the page is an input of the step (dom): the number of scenarios  *)
(* or items extractExamData read (items), the number of choice boxes         *)
(* (boxes), the choices that have a label with their text (labelled), which  *)
(* query finds a check button (check) and what the page shows two seconds    *)
(* after the selector list's button was clicked (after).  ret.clicks holds the labels clicked, in order,  *)
(* ret.pressed the buttons clicked; call.fn is "setTimeout" while the timer  *)
(* of the incorrect-answer branch is pending.                                *)

AttemptDoms ==
    { dom \in [items : 0..MaxChoices, boxes : 0..MaxChoices,
               labelled : SUBSET (1..MaxChoices),
               check : { "selector", "text", "any", "none" },
               after : { "correctNext", "correct", "incorrectTryAgain", "incorrect" }] :
        dom.check # "selector" => dom.after = "incorrect" }

\* choiceLetter.charCodeAt(0) - 65, plus one
letterNumber(c) == CHOOSE i \in 1..Len(UpperCase) : UpperCase[i] = c

\* answer.match(/(\d+)-([A-Z])/) on a pair that passed the format check
pairOf(s) ==
    LET d == prefixLen(s, Digits)
    IN  [item |-> digitsValue(SubSeq(s, 1, d)), choice |-> letterNumber(s[d + 2])]

\* The selections the reply asks for, in order
requests(exam, text) ==
    IF exam.type \in { "true-false", "matching" }
    THEN [i \in 1..Len(trimmedParts(text)) |-> pairOf(trimmedParts(text)[i])]
    ELSE IF isMultiSelect(exam)
    THEN [i \in 1..Len(trimmedParts(text)) |->
             [item |-> 0, choice |-> parseInt(trimmedParts(text)[i]).n]]
    ELSE << [item |-> 0, choice |-> parseInt(trim(text)).n] >>

\* The selection finds its label: the range tests, the choice box, the label
\* whose text is the choice's
labelFound(exam, dom, req) ==
    IF exam.type \in { "true-false", "matching" }
    THEN /\ req.item >= 1 /\ req.item <= dom.items
         /\ req.choice <= exam.choices
         /\ req.item <= dom.boxes
         /\ req.choice \in dom.labelled
    ELSE req.choice \in dom.labelled

labelClick(req) == [kind |-> "label", choice |-> req.item, opt |-> req.choice]

\* The label.click() calls of the selection loop, in order
RECURSIVE labelClicks(_, _, _)
labelClicks(exam, dom, reqs) ==
    IF reqs = << >> THEN << >>
    ELSE (IF labelFound(exam, dom, Head(reqs)) THEN << labelClick(Head(reqs)) >>
          ELSE << >>) \o labelClicks(exam, dom, Tail(reqs))

\* allSelected (found, for a single answer) after the selection loop
allSelected(exam, dom, reqs) ==
    \A i \in 1..Len(reqs) : labelFound(exam, dom, reqs[i])

\* A check that does not depend on the selections (not the code's)
checkAnswersAnyway(selected, dom) ==
    IF dom.check = "selector" THEN << "check" >>
    ELSE IF dom.check = "text" THEN << "checkText" >>
    ELSE IF dom.check = "any" THEN << "fallback" >>
    ELSE << >>

\* if (allSelected) { ... }: the check button of the selector list, then the
\* next button when the feedback is 'correct'; or the first enabled button
\* with 'Check' in its text; or the first enabled button
checkAnswers(selected, dom) ==
    IF ~selected THEN << >>
    ELSE IF dom.check = "selector"
    THEN IF dom.after = "correctNext" THEN << "check", "next" >> ELSE << "check" >>
    ELSE IF dom.check = "text" THEN << "checkText" >>
    ELSE IF dom.check = "any" THEN << "fallback" >>
    ELSE << >>

\* The incorrect-answer branch: a Try Again button is found after the check
pausesAutomation(selected, dom) ==
    selected /\ dom.check = "selector" /\ dom.after = "incorrectTryAgain"

AttemptThrew == [threw |-> TRUE, clicks |-> << >>, pressed |-> << >>, paused |-> FALSE]

\* A try block that makes the range test of an answer number when it comes
\* to select it (not the code's)
tryBlockRangeTestLate(exam, text, dom) ==
    IF exam.type \in { "true-false", "matching" }
    THEN IF attemptThrows(exam, text) THEN AttemptThrew
         ELSE [threw |-> FALSE, clicks |-> labelClicks(exam, dom, requests(exam, text)),
               pressed |-> << >>, paused |-> FALSE]
    ELSE LET parts == IF isMultiSelect(exam) THEN trimmedParts(text) ELSE << trim(text) >>
             inRange == { i \in 1..Len(parts) :
                            /\ ~parseInt(parts[i]).nan
                            /\ ~outOfRange(parseInt(parts[i]), exam) }
         IN  [threw |-> attemptThrows(exam, text),
              clicks |-> labelClicks(exam, dom,
                            [i \in 1..Cardinality({ j \in inRange :
                                    \A k \in 1..j : k \in inRange }) |->
                                [item |-> 0, choice |-> parseInt(parts[i]).n]]),
              pressed |-> << >>, paused |-> FALSE]

\* The try block of one pass of the while loop: the format and range checks
\* of the exam's branch, the selection loop, the check
tryBlock(exam, text, dom) ==
    IF attemptThrows(exam, text) THEN AttemptThrew
    ELSE LET reqs == requests(exam, text)
             selected == allSelected(exam, dom, reqs)
         IN  [threw |-> FALSE,
              clicks |-> labelClicks(exam, dom, reqs),
              pressed |-> checkAnswers(selected, dom),
              paused |-> pausesAutomation(selected, dom)]

\* One pass of the while loop with its clicks, and the catch block up to its
\* await
TryBlockRuns(dom) ==
    /\ rich.pc = "attempt"
    /\ call.fn # "setTimeout"
    /\ LET out == tryBlock(rich.exam, rich.processedResponse, dom)
       IN  /\ rich' =
                IF ~out.threw
                THEN Continue([rich EXCEPT !.automationPaused = out.paused \/ @], TRUE)
                ELSE IF mayRetry(rich.currentTry)
                THEN [rich EXCEPT !.currentTry = @ + 1,
                                  !.prompts = Append(@, retryPrompt(rich.exam)),
                                  !.pc = "retry"]
                ELSE Continue(rich, FALSE)
           /\ ret' = [ret EXCEPT !.clicks = @ \o out.clicks,
                                 !.pressed = @ \o out.pressed]
           /\ call' = IF out.paused THEN [fn |-> "setTimeout", answer |-> << >>]
                      ELSE call
    /\ UNCHANGED << host, page, examStarted, processingContent, isProcessingQuestion,
                    needsUserIntervention, aiStatus, aiError, ticks, resetTimers,
                    passes, processedContentIds, background, hook >>

\* The timer set after setAutomationPaused(true) fires: the first enabled
\* button.btn-primary / button.btn is clicked when its text has "Let's Go"
\* or 'Try Again' (found)
LetsGoTimer(found) ==
    /\ call.fn = "setTimeout"
    /\ call' = [fn |-> "timerFired", answer |-> << >>]
    /\ ret' = [ret EXCEPT !.pressed = IF found THEN Append(@, "letsGo") ELSE @]
    /\ UNCHANGED << host, page, examStarted, processingContent, isProcessingQuestion,
                    needsUserIntervention, aiStatus, aiError, ticks, resetTimers,
                    passes, rich, processedContentIds, background, hook >>

NextAttempt ==
    \/ \E text \in RichTexts, exam \in RichExams \cup { NoExam } :
          HandleAnswerCalled(text, exam)
    \/ \E dom \in AttemptDoms : TryBlockRuns(dom)
    \/ \E reply \in RichReplies : RetryReplyArrives(reply)
    \/ \E found \in BOOLEAN : LetsGoTimer(found)

SpecAttempt == InitAnswer /\ [][NextAttempt]_vars

-----------------------------------------------------------------------------
(* useMessageHandler (src/unnamed/part_001) over ChromeMessageService       *)
(* (src/unnamed/part_002).  hook.calls holds one record per call of          *)
(* sendMessage: its argument, the text it settled on, and where the promise  *)
(* it returned stands (sent: the message is with the background context).    *)

hiText == << "h", "i" >>
HookTexts == { << >>, << " " >>, hiText }

\* sendMessage's optional argument
Given(text) == [given |-> TRUE, text |-> text]
NotGiven == [given |-> FALSE, text |-> << >>]
HookArguments == { Given(text) : text \in HookTexts } \cup { NotGiven }

hookFrame ==
    UNCHANGED << host, page, examStarted, processingContent, isProcessingQuestion,
                 needsUserIntervention, aiStatus, aiError, ticks, resetTimers, passes,
                 call, ret, rich, processedContentIds, background >>

\* setMessage(text)
setMessage(text) ==
    /\ hook.message # text
    /\ hook' = [hook EXCEPT !.message = text]
    /\ hookFrame

\* clearResponse()
clearResponse ==
    /\ hook.response # NoResponse
    /\ hook' = [hook EXCEPT !.response = NoResponse]
    /\ hookFrame

\* messageToSend || message
messageTextOf(messageToSend, message) ==
    IF messageToSend.given /\ messageToSend.text # << >> THEN messageToSend.text
    ELSE message

\* sendMessage(messageToSend) up to the return of its promise: rejected at
\* once for a blank text, or the text is sent with sendAIMessage
sendMessage(messageToSend) ==
    /\ Len(hook.calls) < MaxMessages
    /\ LET messageText == messageTextOf(messageToSend, hook.message)
       IN  hook' =
             IF trim(messageText) = << >>
             THEN [hook EXCEPT !.calls =
                      Append(@, [argument |-> messageToSend, text |-> messageText,
                                 state |-> "rejected", error |-> "Message is empty"])]
             ELSE [hook EXCEPT !.isLoading = TRUE,
                               !.response = NoResponse,
                               !.calls =
                      Append(@, [argument |-> messageToSend, text |-> messageText,
                                 state |-> "sent", error |-> Null])]
    /\ hookFrame

HookOutcomes == { "lastError", "error", "success" }

\* The callback handed to sendAIMessage runs with the response to call i:
\* chrome.runtime.lastError is set (the service hands over its own error
\* response), the response has status 'error', or it carries the reply
ResponseArrives(i, outcome) ==
    /\ i \in 1..Len(hook.calls)
    /\ hook.calls[i].state = "sent"
    /\ hook' =
         [hook EXCEPT
            !.isLoading = FALSE,
            !.response =
                IF outcome = "lastError"
                THEN [kind |-> "Error sending message", text |-> << >>]
                ELSE IF outcome = "error"
                THEN [kind |-> "Error: ", text |-> << >>]
                ELSE [kind |-> "AI Response: ", text |-> hook.calls[i].text],
            !.calls[i].state = IF outcome = "success" THEN "resolved" ELSE "rejected",
            !.calls[i].error = IF outcome = "lastError" THEN "lastError"
                               ELSE IF outcome = "error" THEN "response.error"
                               ELSE Null]
    /\ hookFrame

InitHook ==
    /\ host = "bench"
    /\ page = EmptyPage
    /\ ticks = [t \in { 1 } |-> IdleTick]
    /\ Idle

NextHook ==
    \/ \E text \in HookTexts : setMessage(text)
    \/ clearResponse
    \/ \E messageToSend \in HookArguments : sendMessage(messageToSend)
    \/ \E i \in 1..MaxMessages, outcome \in HookOutcomes : ResponseArrives(i, outcome)

SpecHook == InitHook /\ [][NextHook]_vars

-----------------------------------------------------------------------------
(* The background context (chrome-extension/src/background/index.ts): the   *)
(* onMessage listener and processWithOpenAI.  background.received holds one *)
(* record per message received: the message, where the model call stands,   *)
(* how it settled, and every response handed to sendResponse.  A response   *)
(* is a record with the set of fields it carries (fields); the value of a   *)
(* field it does not carry is a placeholder (nullContent, the empty text,   *)
(* Null).                                                                   *)

msgKeyNotFound ==
    "OpenAI API key not found in environment variables (CEB_OPENAI_API_KEY)"
msgRateLimitExceeded ==
    "OpenAI API rate limit exceeded. Please try again later or check your billing status at platform.openai.com/account/billing"
msgInvalidKey == "Invalid OpenAI API key. Please check your API key configuration."
msgServiceIssues ==
    "OpenAI service is currently experiencing issues. Please try again later."
msgUnableToGetResponse == "Unable to get response from AI. Please try again later."

\* choices[i].message.content: a string, or null
Content(text) == [isNull |-> FALSE, text |-> text]
nullContent == [isNull |-> TRUE, text |-> << >>]

\* How openai.chat.completions.create settles: a completion with the contents
\* of its choices, or an error with its status (0: an error without one)
Completion(choices) == [kind |-> "completion", choices |-> choices, status |-> 0]
Failure(status) == [kind |-> "failure", choices |-> << >>, status |-> status]
NotCalled == [kind |-> "none", choices |-> << >>, status |-> 0]

ModelOutcomes ==
    { Completion(<< Content(rParis) >>), Completion(<< Content(<< >>) >>),
      Completion(<< nullContent >>), Completion(<< >>),
      Failure(429), Failure(401), Failure(500), Failure(400), Failure(0) }

Resolved(value) == [ok |-> TRUE, value |-> value, message |-> Null]
Thrown(message) == [ok |-> FALSE, value |-> nullContent, message |-> message]

\* An error mapping that sends every failure to the generic message (not the
\* code's)
errorMessageGeneric(status) == msgUnableToGetResponse

\* The catch block of processWithOpenAI
errorMessage(status) ==
    IF status = 429 THEN msgRateLimitExceeded
    ELSE IF status = 401 THEN msgInvalidKey
    ELSE IF status = 500 THEN msgServiceIssues
    ELSE msgUnableToGetResponse

\* How the promise of processWithOpenAI settles.  Reading choices[0].message
\* of a completion without choices throws inside the try block.
processWithOpenAI(hasKey, outcome) ==
    IF ~hasKey THEN Thrown(msgKeyNotFound)
    ELSE IF outcome.kind = "completion"
    THEN IF outcome.choices = << >> THEN Thrown(errorMessage(0))
         ELSE Resolved(outcome.choices[1])
    ELSE Thrown(errorMessage(outcome.status))

connectedResponse ==
    [status |-> "connected", fields |-> { "status", "timestamp" },
     originalText |-> << >>, aiResponse |-> nullContent, error |-> Null]

\* A response with the reply and the error at once (not the code's)
responseWithBoth(text, settled) ==
    [status |-> "received",
     fields |-> { "status", "originalText", "aiResponse", "error", "timestamp" },
     originalText |-> text, aiResponse |-> settled.value, error |-> settled.message]

\* The then / catch callbacks of the listener
sendMessageResponse(text, settled) ==
    IF settled.ok
    THEN [status |-> "received",
          fields |-> { "status", "originalText", "aiResponse", "timestamp" },
          originalText |-> text, aiResponse |-> settled.value, error |-> Null]
    ELSE [status |-> "error",
          fields |-> { "status", "originalText", "error", "timestamp" },
          originalText |-> text, aiResponse |-> nullContent, error |-> settled.message]

MessageTypes == { "CHECK_CONNECTION", "SEND_MESSAGE" }
MessageTexts == { rParis, << >> }

backgroundFrame ==
    UNCHANGED << host, page, appVars, call, ret, rich, processedContentIds, hook >>

\* The onMessage listener runs on a message: it answers CHECK_CONNECTION at
\* once and starts processWithOpenAI for SEND_MESSAGE, then returns true
OnMessage(type, text) ==
    /\ Len(background.received) < MaxMessages
    /\ background' =
          [background EXCEPT !.received = Append(@,
              [type |-> type, text |-> text,
               pc |-> IF type = "SEND_MESSAGE"
                      THEN (IF background.hasKey THEN "create" ELSE "rejected")
                      ELSE "done",
               outcome |-> NotCalled,
               responses |-> IF type = "CHECK_CONNECTION"
                             THEN << connectedResponse >> ELSE << >>])]
    /\ backgroundFrame

\* The promise of processWithOpenAI settles (the model call has settled, or
\* the key was missing and the call was never made) and the listener's then
\* or catch callback runs
Settles(i, outcome) ==
    /\ i \in 1..Len(background.received)
    /\ \/ background.received[i].pc = "create" /\ outcome \in ModelOutcomes
       \/ background.received[i].pc = "rejected" /\ outcome = NotCalled
    /\ background' =
          [background EXCEPT
              !.received[i].pc = "done",
              !.received[i].outcome = outcome,
              !.received[i].responses = Append(@,
                  sendMessageResponse(background.received[i].text,
                      processWithOpenAI(background.hasKey, outcome)))]
    /\ backgroundFrame

InitBackground ==
    /\ host = "bench"
    /\ page = EmptyPage
    /\ ticks = [t \in { 1 } |-> IdleTick]
    /\ IdleScript
    /\ \E hasKey \in BOOLEAN : background = BackgroundLoaded(hasKey)

NextBackground ==
    \/ \E type \in MessageTypes, text \in MessageTexts : OnMessage(type, text)
    \/ \E i \in 1..MaxMessages, outcome \in ModelOutcomes \cup { NotCalled } :
          Settles(i, outcome)

SpecBackground == InitBackground /\ [][NextBackground]_vars

\* Every promise of processWithOpenAI settles: the rejection for a missing
\* key at once, the model call when the API answers or the client gives up
FairBackground ==
    /\ SpecBackground
    /\ WF_vars(\E i \in 1..MaxMessages, outcome \in ModelOutcomes \cup { NotCalled } :
                  Settles(i, outcome))

-----------------------------------------------------------------------------
(* Properties *)

\* The button a cascade clicked
clickedButton == page.buttons[ret.idx]

\* C1: on every autoclick path (the check-answers cascade with its
\* last-resort fallback, the next-button click, the 'already answered'
\* advance of the true/false and multiple-choice handlers, the unit-exam
\* advance) the button clicked never has a text containing 'continue to
\* final exam', 'continue to unit exam' or 'continue to lesson', whatever
\* buttons the page holds.
C1_NeverClicksContinue ==
    (call.fn \in Cascades /\ ret.idx # 0)
        => ~isContinueText(buttonText(clickedButton))

\* C2: a tick that began with a 'try again' control on the page extracts
\* nothing, asks the answer source nothing, injects nothing and clicks
\* nothing, whichever way it was entered and whatever content it detected.
C2_TryAgainTickDoesNothing ==
    \A t \in Slots : ticks[t].tryAtStart => ticks[t].did = { }

\* C3: when the answer source reports an error the tick is aborted: the AI
\* status is 'error' with the supplied message and the tick clicks no option
\* and no button.
C3_ErrorAbortsTick ==
    \A t \in Slots :
        ticks[t].err =>
            /\ aiStatus = "error"
            /\ aiError \in { msgRateLimit, msgUnknownError, msgTypeError }
            /\ ticks[t].did \cap { "option", "button" } = { }

\* The question data the injector applied in this run worked on
injectedData ==
    IF call.fn = "selectTrueFalseAnswers" THEN extractTrueFalseQuestionData(page)
    ELSE IF call.fn = "selectMultipleChoiceAnswer"
    THEN extractMultipleChoiceQuestionData(page)
    ELSE extractUnitExamQuestionData(page)

hasOptionElement(qd) ==
    \E k \in 1..Len(qd.choices) : Len(qd.choices[k].optionElements) > 0

\* C4: every injector (true/false, multiple-choice, unit-exam) falls back to
\* the first option when no tier matches: an injection on a question with at
\* least one option element never ends without a click.
C4_InjectionAlwaysSelects ==
    (call.fn \in Injectors /\ hasOptionElement(injectedData))
        => ret.clicks # << >>

\* The option texts an injection chooses among, and the element of each
optionTexts(qd) ==
    IF qd.type = TRUE_FALSE
    THEN IF qd.choices = << >> THEN << >> ELSE qd.choices[1].options
    ELSE [k \in 1..Len(qd.choices) |-> qd.choices[k].text]

optionElement(qd, j) ==
    IF qd.type = TRUE_FALSE THEN TofOption(1, j)
    ELSE IF qd.type = MULTIPLE_CHOICE THEN RowLabel(j)
    ELSE ExamRadio(j)

exactOptions(qd, answer) ==
    { j \in 1..Len(optionTexts(qd)) : optionTexts(qd)[j] = answer }

\* C5: when some option text equals the answer exactly, the injector's click
\* goes to an exactly-equal option, never to an option that matches the
\* answer only case-insensitively or by containment.
C5_ExactMatchWins ==
    (call.fn \in Injectors /\ exactOptions(injectedData, call.answer) # { })
        => \A c \in 1..Len(ret.clicks) :
              \E j \in exactOptions(injectedData, call.answer) :
                  ret.clicks[c] = optionElement(injectedData, j)

\* C6: at most one tick of the polling loop is in flight at any time.
C6_OneTickInFlight == Cardinality(TicksInFlight) <= 1

\* The steps in which a tick starts, and in which a tick ends after its
\* check step
tickStarts == passes' # passes

endsAfterCheck == \E t \in Slots : ticks[t].pc = "settle" /\ ticks'[t].pc # "settle"

\* The tick that starts evaluates hasTryAgainButton() before anything else:
\* the interval callback does, and so do the true/false and multiple-choice
\* handlers
looksForTryAgain ==
    \/ examStarted
    \/ /\ ~isExamSubmissionDialogPresent(page)
       /\ detectContentType(page) \in { TRUE_FALSE, MULTIPLE_CHOICE }

\* C7: a 'try again' control observed at the start of a tick or after the
\* check step sets needsUserIntervention; while the flag is set no new tick
\* starts, and only handleResumeAutomation clears it.
C7_TryAgainNeedsUser ==
    [][ /\ (tickStarts /\ looksForTryAgain /\ hasTryAgainButton(page))
              => needsUserIntervention'
        /\ (endsAfterCheck /\ hasTryAgainButton(page)) => needsUserIntervention'
        /\ needsUserIntervention => ~tickStarts
        /\ (needsUserIntervention /\ ~needsUserIntervention')
              => UNCHANGED << host, page, examStarted, processingContent,
                              isProcessingQuestion, aiStatus, aiError, ticks,
                              resetTimers, passes >> ]_vars

\* C8: a tick that fails (nothing extracted, an error from the answer source,
\* an exception) aborts only itself: once no tick is in flight the busy flag
\* processingContent is released, and while automation is started and no
\* intervention is pending another tick eventually starts (under the
\* fairness of the timers and of the answer source).
C8_FailedTickReleases ==
    /\ [](TicksInFlight = { } => ~processingContent)
    /\ \A n \in { 0, 1 } :
          (examStarted /\ ~needsUserIntervention /\ passes = n)
              ~> (passes # n \/ needsUserIntervention)

\* C8: a tick in which the answer source failed has ended, and the interval
\* is armed again
C8_Witness ==
    /\ aiStatus = "error"
    /\ TicksInFlight = { }
    /\ IntervalArmed

\* The container an extractor's content type requires
containerPresent(fn, p) ==
    IF fn = "extractTrueFalseQuestionData"
    THEN p.sel \cap { selTofClass, selTofTag } # { }
    ELSE IF fn = "extractMultipleChoiceQuestionData"
    THEN p.sel \cap { selMcClass, selMcTag } # { }
    ELSE \E i \in 1..Len(p.unit) : p.unit[i].present

\* C9: each extractor returns null when its type's container is absent from
\* the page, and a missing title or question node yields the empty string.
C9_NullWithoutContainer ==
    call.fn \in Extractors =>
        /\ ~containerPresent(call.fn, page) => ret.data = NullData
        /\ ret.data # NullData =>
              /\ (~page.title.present /\ call.fn # "extractUnitExamQuestionData")
                    => ret.data.title = << >>
              /\ ~page.question.present => ret.data.question = << >>

\* The classification the priority order prescribes, from which elements
\* are present.  The unit-exam candidate is the element of the first
\* unit-exam selector that matches; it is validated when it has radio inputs
\* or an exam-question-box descendant.
validatedUnitExam(p) ==
    \E i \in 1..Len(p.unit) :
        /\ p.unit[i].present
        /\ \A j \in 1..(i - 1) : ~p.unit[j].present
        /\ p.unit[i].radio \/ p.unit[i].box

genericNextButton(p) ==
    \E i \in 1..Len(p.buttons) :
        /\ p.buttons[i].tag = "button"
        /\ { clsUnit, clsNext } \subseteq p.buttons[i].cls

prescribedType(p) ==
    IF p.sel \cap { selTofClass, selTofTag } # { } THEN TRUE_FALSE
    ELSE IF p.sel \cap { selMcClass, selMcTag } # { } THEN MULTIPLE_CHOICE
    ELSE IF validatedUnitExam(p) THEN UNIT_EXAM
    ELSE IF p.sel \cap { selTextClass, selTextTag, selTextEdit } # { } THEN TEXT_CONTENT
    ELSE IF genericNextButton(p) THEN TEXT_CONTENT
    ELSE UNKNOWN

\* C10: detectContentType is total and first-match-wins: true_false, else
\* multiple_choice, else unit_exam (validated candidate), else text_content
\* for a text container, else text_content for a generic next button, else
\* unknown.
C10_FirstMatchWins ==
    call.fn = "detectContentType" =>
        /\ ret.type \in ContentTypes
        /\ ret.type = prescribedType(page)

\* C10: a true/false container together with a next button, and no other
\* container, has been classified true_false
C10_Witness ==
    /\ call.fn = "detectContentType"
    /\ page.sel = { selTofClass }
    /\ genericNextButton(page)
    /\ ret.type = TRUE_FALSE

\* The page's only matching container is a unit-exam candidate without radio
\* inputs and without an exam-question-box descendant
onlyRejectedCandidate(p) ==
    /\ p.sel = { }
    /\ \E i \in 1..Len(p.unit) : p.unit[i].present
    /\ \A i \in 1..Len(p.unit) :
          p.unit[i].present => (~p.unit[i].radio /\ ~p.unit[i].box)

\* C11: when the only matching container is a unit-exam candidate with
\* neither radio inputs nor an exam-question-box descendant, detectContentType
\* rejects it and classifies the page as text_content, never as unit_exam.
C11_RejectedCandidateIsText ==
    (call.fn = "detectContentType" /\ onlyRejectedCandidate(page))
        => ret.type = TEXT_CONTENT

\* The submission confirmation dialog and its Submit Exam button, as the page
\* shows them
submissionDialogShown(p) ==
    /\ p.alertText.present
    /\ includes(toLowerCase(p.alertText.text), kwReadyToSubmit)

submitExamButtonShown(p) ==
    \E i \in 1..Len(p.dialogButtons) :
        includes(toLowerCase(trim(p.dialogButtons[i])), kwSubmitExam)

\* The step calls processCurrentContent: a pass begins and the interval
\* callback has not returned on its own 'try again' test
callsProcessCurrentContent ==
    /\ passes' # passes
    /\ ~(examStarted /\ hasTryAgainButton(page))

\* C12: with the submission confirmation dialog present, processCurrentContent
\* handles the dialog before classification: the pass waits for the Submit
\* Exam click having classified, extracted and asked nothing, the click is
\* attempted, and 'unknown' is what it returns (no content handler runs).
C12_DialogBeforeClassification ==
    [][ /\ (callsProcessCurrentContent /\ submissionDialogShown(page))
              => \E t \in Slots :
                    /\ ticks[t].pc = "idle"
                    /\ ticks'[t].pc = "dialog"
                    /\ ticks'[t].ctype = UNKNOWN
                    /\ ticks'[t].did = { }
        /\ \A t \in Slots :
              (ticks[t].pc = "dialog" /\ ticks'[t] # ticks[t])
                  => /\ ticks'[t].pc \in { "idle", "fallbackNext" }
                     /\ ticks'[t].pc = "fallbackNext"
                           => /\ ticks'[t].ctype = UNKNOWN
                              /\ ticks'[t].did \subseteq { "button" }
                              /\ "button" \in ticks'[t].did
                                    <=> submitExamButtonShown(page) ]_vars

\* C12: a pass that met the dialog has clicked Submit Exam and returned
\* 'unknown' to the interval callback
C12_Witness ==
    \E t \in Slots :
        /\ ticks[t].pc = "fallbackNext"
        /\ ticks[t].ctype = UNKNOWN
        /\ ticks[t].did = { "button" }

\* An option text matches an answer under one of the three tiers
answerMatches(option, answer) ==
    \/ option = answer
    \/ toLowerCase(option) = toLowerCase(answer)
    \/ includes(toLowerCase(option), toLowerCase(answer))
    \/ includes(toLowerCase(answer), toLowerCase(option))

\* The option texts of scenario k as the page shows them
scenarioOptions(k) == [j \in 1..Len(page.tof[k].options) |-> trim(page.tof[k].options[j])]

\* C13: selectTrueFalseAnswers applies the answers positionally and in order:
\* a step clicks at most one option (a delay separates two clicks), the
\* choices are clicked in increasing order, the click for choice i is an
\* option of choice i that matches answers[i] when one matches, and on return
\* every choice that has an answer and options has been clicked once.
C13_PositionalInOrder ==
    [][ /\ Len(ret'.clicks) <= Len(ret.clicks) + 1
        /\ \A n \in 1..Len(ret.clicks) : ret'.clicks[n] = ret.clicks[n]
        /\ Len(ret'.clicks) > Len(ret.clicks) =>
              LET c == ret'.clicks[Len(ret'.clicks)]
                  i == c.choice
                  answers == ticks'[1].answers
              IN  /\ c.kind = "tofOption"
                  /\ \A n \in 1..Len(ret.clicks) : ret.clicks[n].choice < i
                  /\ i \in 1..Len(answers) /\ i \in 1..Len(page.tof)
                  /\ c.opt \in 1..Len(scenarioOptions(i))
                  /\ (\E j \in 1..Len(scenarioOptions(i)) :
                          answerMatches(scenarioOptions(i)[j], answers[i]))
                        => answerMatches(scenarioOptions(i)[c.opt], answers[i])
                  /\ (\E j \in 1..Len(scenarioOptions(i)) :
                          scenarioOptions(i)[j] = answers[i])
                        => scenarioOptions(i)[c.opt] = answers[i]
        /\ (ticks'[1].pc = "selected" /\ Len(ticks[1].answers) > 0) =>
              { ret'.clicks[n].choice : n \in 1..Len(ret'.clicks) }
                 = { k \in 1..Len(page.tof) :
                        k <= Len(ticks[1].answers) /\ Len(page.tof[k].options) > 0 }
      ]_vars

\* C13: answers ['Not allowed', 'Allowed'] on two scenarios offering
\* Allowed / Not allowed have clicked scenario 1's 'Not allowed' and then
\* scenario 2's 'Allowed'
C13_Witness ==
    /\ call.fn = "selectTrueFalseAnswers"
    /\ ticks[1].pc = "selected"
    /\ ticks[1].answers = << txNotAllowed, txAllowed >>
    /\ Len(page.tof) = 2
    /\ page.tof[1].options = << txAllowed, txNotAllowed >>
    /\ page.tof[2].options = << txAllowed, txNotAllowed >>
    /\ ret.clicks = << TofOption(1, 2), TofOption(2, 1) >>

\* The choices whose text equals the answer ignoring letter case
caseInsensitiveOptions(qd, answer) ==
    { j \in 1..Len(optionTexts(qd)) :
         toLowerCase(optionTexts(qd)[j]) = toLowerCase(answer) }

\* C14: for multiple-choice content, when no choice text equals the answer
\* exactly but some choice equals it ignoring letter case,
\* selectMultipleChoiceAnswer clicks exactly one element: the first choice
\* that equals the answer case-insensitively.
C14_CaseInsensitiveTier ==
    (/\ call.fn = "selectMultipleChoiceAnswer"
     /\ injectedData # NullData
     /\ exactOptions(injectedData, call.answer) = { }
     /\ caseInsensitiveOptions(injectedData, call.answer) # { })
        => ret.clicks =
              << RowLabel(MinOf(caseInsensitiveOptions(injectedData, call.answer))) >>

\* C14: the answer 'a' on the choices b, A has selected A
C14_Witness ==
    /\ call.fn = "selectMultipleChoiceAnswer"
    /\ call.answer = << "a" >>
    /\ page.sel = { selMcClass }
    /\ page.rows = << Node(<< "b" >>), Node(<< "A" >>) >>
    /\ ret.clicks = << RowLabel(2) >>

\* The page on which an injector's handler finds the given option texts
pageWithOptions(fn, texts) ==
    IF fn = "selectTrueFalseAnswers"
    THEN [EmptyPage EXCEPT !.sel = { selTofClass },
                           !.tof = << [text |-> Node(txQuestion), options |-> texts] >>]
    ELSE IF fn = "selectMultipleChoiceAnswer"
    THEN [EmptyPage EXCEPT !.sel = { selMcClass },
                           !.rows = [j \in 1..Len(texts) |-> Node(texts[j])]]
    ELSE [EmptyPage EXCEPT !.unit = << UnitElement(TRUE, FALSE), NoElement,
                                       NoElement, NoElement >>,
                           !.radios = texts]

\* The position, among the option texts, of the element an injector clicked
\* (0: none)
clickedPosition(clicks) ==
    IF clicks = << >> THEN 0
    ELSE IF clicks[1].kind = "tofOption" THEN clicks[1].opt
    ELSE clicks[1].choice

\* C15: the true/false, multiple-choice and unit-exam injectors implement the
\* same three-tier policy (exact, case-insensitive, containment either way):
\* on the same option texts, every one with an element, and the same answer
\* matching some option under a tier, all three select the same position.
C15_SamePolicy ==
    (/\ call.fn \in Injectors
     /\ \A k \in 1..Len(injectedData.choices) :
           Len(injectedData.choices[k].optionElements) > 0
     /\ \E j \in 1..Len(optionTexts(injectedData)) :
           answerMatches(optionTexts(injectedData)[j], call.answer))
        => \A fn \in Injectors :
              clickedPosition(inject(fn, pageWithOptions(fn, optionTexts(injectedData)),
                                     call.answer))
                 = clickedPosition(ret.clicks)

\* C16: for multiple-choice and unit-exam content only the first returned
\* answer is used: whatever the length of the answer list, the handler clicks
\* at most one answer option, and it is the option the injector selects for
\* the first answer alone.
C16_FirstAnswerOnly ==
    call.fn \in ChoiceHandlers =>
        /\ Len(ret.clicks) <= 1
        /\ ticks[1].answers # << >> =>
              ret.clicks = IF call.fn = "handleMultipleChoiceContent"
                           THEN selectMultipleChoiceAnswer(ticks[1].qd, ticks[1].answers[1])
                           ELSE selectUnitExamAnswer(ticks[1].qd, ticks[1].answers[1])
        /\ ticks[1].answers = << >> => ret.clicks = << >>

\* Several answers were returned, a later one names another option than the
\* first, and the first answer's option was clicked
C16_Witness ==
    /\ call.fn \in ChoiceHandlers
    /\ Len(ticks[1].answers) > 1
    /\ Len(ret.clicks) = 1
    /\ \E k \in 2..Len(ticks[1].answers) :
          choiceAnswerClicks(ticks[1].qd, << ticks[1].answers[k] >>)
              \notin { << >>, ret.clicks }

\* The page holds an enabled next control that is not the 'try again' reset
\* control
enabledNextShown(p) ==
    \E i \in 1..Len(p.buttons) : isNextNotReset(p.buttons[i]) /\ ~p.buttons[i].disabled

\* C17: in the true/false and multiple-choice handlers, with no 'try again'
\* control on the page and an enabled next control that is not the reset
\* control, the handler clicks that control and returns: nothing is
\* extracted, the answer source is not asked, no option and no check-answers
\* button is clicked.
C17_AlreadyAnsweredAdvance ==
    (/\ call.fn \in QuestionHandlers
     /\ ~hasTryAgainButton(page)
     /\ enabledNextShown(page))
        => /\ ticks[1].pc = "start"
           /\ ticks[1].did = { "button" }

\* The enabled buttons of the page that are not excluded ('continue to final
\* exam'), and those among them whose text is a check-answers match
enabledNotExcluded(p) ==
    { i \in 1..Len(p.buttons) :
         ~p.buttons[i].disabled /\ ~isContinueToFinalExam(buttonText(p.buttons[i])) }

checkAnswersMatches(p) ==
    { i \in enabledNotExcluded(p) : isCheckAnswersText(buttonText(p.buttons[i])) }

\* C18: clickCheckAnswersButton follows the prioritized cascade: when the page
\* has an enabled, non-excluded button whose text is a check-answers match,
\* the button clicked is such a button; without one, a click goes to an
\* enabled, non-excluded button, and to one whose text or class implies
\* submit/next/continue when no selector of the cascade finds a button.
C18_CheckAnswersCascade ==
    call.fn = "clickCheckAnswersButton" =>
        /\ checkAnswersMatches(page) # { } => ret.idx \in checkAnswersMatches(page)
        /\ ret.idx # 0 => ret.idx \in enabledNotExcluded(page)
        /\ (/\ ret.idx # 0
            /\ checkAnswersMatches(page) = { }
            /\ Matching(page, checkSelector4) \cap enabledNotExcluded(page) = { })
               => isPossibleSubmitButton(clickedButton)

\* handleAnswer is in its retry loop
inRetryLoop == rich.pc \in { "attempt", "retry" }

\* C19: handleAnswer retries at most 2 times when the reply fails the format
\* check: an invocation sends at most 2 retry prompts, one per failed attempt
\* while fewer than 2 were sent; it throws when the attempt after the second
\* retry fails and when a retry request fails, and otherwise only ends by
\* accepting a reply; and it always terminates.
C19_BoundedRetries ==
    /\ [](Len(rich.prompts) <= 2)
    /\ [][ /\ (rich.pc = "attempt" /\ rich'.pc = "retry")
                 => /\ attemptThrows(rich.exam, rich.processedResponse)
                    /\ Len(rich.prompts) < 2
                    /\ Len(rich'.prompts) = Len(rich.prompts) + 1
           /\ (rich.pc = "attempt" /\ rich'.pc = "thrown")
                 => /\ attemptThrows(rich.exam, rich.processedResponse)
                    /\ Len(rich.prompts) = 2
                    /\ rich'.prompts = rich.prompts
           /\ (rich.pc = "attempt" /\ rich'.pc = "done")
                 => ~attemptThrows(rich.exam, rich.processedResponse)
           /\ (rich.pc = "retry" /\ rich'.pc # "retry")
                 => /\ rich'.pc \in { "attempt", "thrown" }
                    /\ rich'.prompts = rich.prompts ]_vars
    /\ inRetryLoop ~> ~inRetryLoop

\* C19: two retry prompts were sent and the third attempt failed too
C19_Witness ==
    /\ rich.pc = "thrown"
    /\ Len(rich.prompts) = 2
    /\ rich.currentTry = 2
    /\ attemptThrows(rich.exam, rich.processedResponse)

\* C20: in the one-second timer surface, once handleStartExam has enabled
\* the automation the polling loop does not stop itself: while the automation
\* is enabled and not paused the interval stays set (and each of its firings
\* invokes the Driver).
C20_LoopKeepsPolling ==
    (rich.examStarted /\ ~rich.automationPaused) => rich.interval = "set"

\* Two characters that are the same letter in either case, or the same
\* character
sameLetter(c, d) ==
    \/ c = d
    \/ \E i \in 1..Len(UpperCase) : { c, d } = { UpperCase[i], LowerCase[i] }

\* Two texts that differ only in letter case and in the amount and position
\* of white space
RECURSIVE sameText(_, _)
sameText(a, b) ==
    IF a # << >> /\ Head(a) \in WhiteSpace THEN sameText(Tail(a), b)
    ELSE IF b # << >> /\ Head(b) \in WhiteSpace THEN sameText(a, Tail(b))
    ELSE IF a = << >> \/ b = << >> THEN a = b
    ELSE sameLetter(Head(a), Head(b)) /\ sameText(Tail(a), Tail(b))

\* For each text, the texts that differ from it only in case and white space
variantsOf == [a \in IdTexts |-> { b \in IdTexts : sameText(a, b) }]

\* generateContentId on every pair of texts
contentIdOf ==
    [title \in IdTexts |->
        [question \in IdTexts |-> generateContentId(title, question)]]

\* C21: the id generateContentId gave to (title, question) is the id of every
\* pair whose title and question differ from them only in letter case or in
\* white space (the equal pair included)
C21_ContentIdInsensitive ==
    call.fn = "generateContentId" =>
        \A title \in variantsOf[ret.data.title] :
            \A question \in variantsOf[ret.data.question] :
                contentIdOf[title][question] = ret.data.contentId

\* An id was generated for a pair with an upper-case letter and white space
\* that another pair matches up to case and white space
C21_Witness ==
    /\ call.fn = "generateContentId"
    /\ \E i \in 1..Len(ret.data.title) : ret.data.title[i] = "A"
    /\ \E i \in 1..Len(ret.data.question) : ret.data.question[i] \in WhiteSpace
    /\ \E title \in IdTexts, question \in IdTexts :
            /\ << title, question >> # << ret.data.title, ret.data.question >>
            /\ sameText(title, ret.data.title)
            /\ sameText(question, ret.data.question)
            /\ title # stripWhitespace(title) \/ title # toLowerCase(title)

\* C22: no step removes an id from processedContentIds (the set never
\* shrinks), markContentAsProcessed(id) leaves id in it, and an id that
\* hasContentBeenProcessed reports stays reported in every later state
C22_MemoAppendOnly ==
    [][ /\ processedContentIds \subseteq processedContentIds'
        /\ \A contentId \in MemoIds :
              /\ hasContentBeenProcessed(contentId)
                    => hasContentBeenProcessed(contentId)'
              /\ call' = [fn |-> "markContentAsProcessed", answer |-> contentId]
                    => hasContentBeenProcessed(contentId)'
              /\ (call' = [fn |-> "hasContentBeenProcessed", answer |-> contentId]
                    /\ call' # call)
                    => (ret'.idx = 1 <=> contentId \in processedContentIds) ]_vars

\* Two ids are marked, the exam was started and "Reset State" was pressed
\* since, and hasContentBeenProcessed has just reported the first of them
C22_Witness ==
    /\ Cardinality(processedContentIds) = 2
    /\ examStarted /\ ~processingContent
    /\ call.fn = "hasContentBeenProcessed"
    /\ call.answer \in processedContentIds
    /\ ret.idx = 1

\* The ids of the questions a lesson renders
LessonIds == { extractTrueFalseQuestionData(p).contentId : p \in LessonPages }

\* A pass has had the question with this id answered and is clicking its options
answeredFor(contentId) ==
    \E t \in Slots : ticks[t].pc = "select" /\ ticks[t].qd.contentId = contentId

\* A pass is waiting for the answer source's reply to the question with this id
sentFor(contentId) ==
    \E t \in Slots : ticks[t].pc = "ask" /\ ticks[t].qd.contentId = contentId

\* C23: once a pass has had a question answered, no later pass sends the
\* question with the same contentId to the answer source again
C23_NotSentTwice ==
    \A contentId \in LessonIds :
        [](answeredFor(contentId) => [] ~sentFor(contentId))

\* The messages of type SEND_MESSAGE the background context has received
sendMessages ==
    { i \in 1..Len(background.received) :
        background.received[i].type = "SEND_MESSAGE" }

\* The response carries the reply field or the error field, and only one
carriesReplyXorError(response) ==
    Cardinality(response.fields \cap { "aiResponse", "error" }) = 1

\* C24: a SEND_MESSAGE has no response when the listener returns, exactly one
\* once the promise of processWithOpenAI has settled, never a second one, the
\* response carries either the reply or an error string and not both, and
\* every SEND_MESSAGE received is eventually answered
C24_AnsweredExactlyOnce ==
    /\ [](\A i \in sendMessages :
            LET m == background.received[i]
            IN  /\ Len(m.responses) = (IF m.pc = "done" THEN 1 ELSE 0)
                /\ \A k \in 1..Len(m.responses) :
                      /\ carriesReplyXorError(m.responses[k])
                      /\ "error" \in m.responses[k].fields
                            => m.responses[k].error # Null)
    /\ [][\A i \in 1..Len(background'.received) :
            /\ i > Len(background.received)
                  => (background'.received[i].type = "SEND_MESSAGE"
                        => background'.received[i].responses = << >>)
            /\ i <= Len(background.received)
                  => (background.received[i].responses # << >>
                        => background'.received[i] = background.received[i])]_vars
    /\ \A i \in 1..MaxMessages :
          (i \in sendMessages) ~> (i \in sendMessages
                                    /\ Len(background.received[i].responses) = 1)

\* With a key, one model call succeeded and another failed, and each message
\* has its one response
C24_Witness ==
    /\ background.hasKey
    /\ Len(background.received) = 2
    /\ \A i \in 1..2 :
          /\ background.received[i].type = "SEND_MESSAGE"
          /\ Len(background.received[i].responses) = 1
    /\ background.received[1].responses[1].status = "received"
    /\ background.received[2].responses[1].status = "error"

\* C25: the status of every response to a SEND_MESSAGE is 'success' or
\* 'error': 'success' when it carries the answer text, 'error' when it
\* carries an error string
C25_StatusSuccessOrError ==
    \A i \in sendMessages :
        \A k \in 1..Len(background.received[i].responses) :
            LET response == background.received[i].responses[k]
            IN  /\ response.status \in { "success", "error" }
                /\ "aiResponse" \in response.fields => response.status = "success"
                /\ "error" \in response.fields => response.status = "error"

\* The responses to the SEND_MESSAGEs whose model call failed with a status
\* in S (0: no status, or an exception while reading the completion)
failedWith(S) ==
    { background.received[i].responses[1] : i \in
        { j \in sendMessages :
            /\ background.received[j].pc = "done"
            /\ \/ /\ background.received[j].outcome.kind = "failure"
                  /\ background.received[j].outcome.status \in S
               \/ /\ background.received[j].outcome.kind = "completion"
                  /\ background.received[j].outcome.choices = << >>
                  /\ 0 \in S } }

\* C26: a model call that failed with HTTP 429, 401 or 500 is relayed with
\* the message of that status, every other failure with the generic message,
\* the four messages are pairwise different, and the relayed response has
\* status 'error' and carries the message as its error
C26_DistinctErrorStrings ==
    /\ \A response \in failedWith({ 429 }) : response.error = msgRateLimitExceeded
    /\ \A response \in failedWith({ 401 }) : response.error = msgInvalidKey
    /\ \A response \in failedWith({ 500 }) : response.error = msgServiceIssues
    /\ \A response \in failedWith({ 0, 400 }) :
          response.error = msgUnableToGetResponse
    /\ \A response \in failedWith({ 0, 400, 401, 429, 500 }) :
          response.status = "error" /\ "error" \in response.fields
    /\ Cardinality({ msgRateLimitExceeded, msgInvalidKey, msgServiceIssues,
                     msgUnableToGetResponse }) = 4

\* A rate-limited call and a call that failed without a status were relayed
C26_Witness ==
    /\ failedWith({ 429 }) # {}
    /\ failedWith({ 0 }) # {}

\* C27: a pass of the true/false or multiple-choice handler whose
\* check-answers step clicked a button had clicked at least one answer option
\* before
C27_CheckOnlyAfterInjection ==
    \A t \in Slots :
        (ticks[t].pc = "settle" /\ "button" \in ticks[t].did)
            => "option" \in ticks[t].did

\* C28: the button clickNextButton clicks is never the 'try again' control
C28_NeverClicksTryAgain ==
    (call.fn = "clickNextButton" /\ ret.idx # 0) => ~isTryAgainButton(clickedButton)

\* The three texts no autoclick may press, written out
excludedText(t) ==
    \/ includes(t, << "c", "o", "n", "t", "i", "n", "u", "e", " ", "t", "o", " ",
                      "f", "i", "n", "a", "l", " ", "e", "x", "a", "m" >>)
    \/ includes(t, << "c", "o", "n", "t", "i", "n", "u", "e", " ", "t", "o", " ",
                      "u", "n", "i", "t", " ", "e", "x", "a", "m" >>)
    \/ includes(t, << "c", "o", "n", "t", "i", "n", "u", "e", " ", "t", "o", " ",
                      "l", "e", "s", "s", "o", "n" >>)

\* C29: clickNextButton clicks at most one button, the button it clicks is
\* enabled and its text (trimmed, lower case) contains none of the three
\* 'continue to ...' texts, and it resolves true exactly when it clicked
C29_NextClicksOneAllowedButton ==
    call.fn = "clickNextButton" =>
        /\ Len(ret.pressed) <= 1
        /\ \A k \in 1..Len(ret.pressed) :
              /\ ~page.buttons[ret.pressed[k]].disabled
              /\ ~excludedText(toLowerCase(trim(page.buttons[ret.pressed[k]].text)))
        /\ ret.resolved <=> ret.pressed # << >>

\* clickNextButton clicked the second button of a page whose first button is
\* a 'Continue to ...' button, or is disabled
C29_Witness ==
    /\ call.fn = "clickNextButton"
    /\ ret.pressed = << 2 >>
    /\ ret.resolved
    /\ \/ excludedText(toLowerCase(trim(page.buttons[1].text)))
       \/ page.buttons[1].disabled

\* C30: clickCheckAnswersButton clicks at most one control, never a disabled
\* one, and resolves true exactly when it clicked one
C30_CheckClicksOneEnabled ==
    call.fn = "clickCheckAnswersButton" =>
        /\ Len(ret.pressed) <= 1
        /\ \A k \in 1..Len(ret.pressed) : ~page.buttons[ret.pressed[k]].disabled
        /\ ret.resolved <=> ret.pressed # << >>

\* clickCheckAnswersButton passed over a disabled Check Answers button and
\* clicked the enabled button after it
C30_Witness ==
    /\ call.fn = "clickCheckAnswersButton"
    /\ Len(page.buttons) = 2
    /\ page.buttons[1].disabled
    /\ isCheckAnswersText(buttonText(page.buttons[1]))
    /\ ret.pressed = << 2 >>
    /\ ret.resolved

\* How many of the clicks so far are on an option of choice k
clicksOnChoice(k) ==
    Cardinality({ n \in 1..Len(ret.clicks) : ret.clicks[n].choice = k })

\* C31: selectTrueFalseAnswers never clicks two options of one choice; when it
\* has returned, every choice that has an answer (its index is at most the
\* number of answers) and at least one option element has exactly one option
\* clicked, and every other choice none; with no answers nothing is clicked
C31_OneClickPerAnsweredChoice ==
    call.fn = "selectTrueFalseAnswers" =>
        /\ \A k \in 1..Len(page.tof) : clicksOnChoice(k) <= 1
        /\ \A n \in 1..Len(ret.clicks) :
              /\ ret.clicks[n].kind = "tofOption"
              /\ ret.clicks[n].choice \in 1..Len(page.tof)
              /\ ret.clicks[n].opt \in 1..Len(page.tof[ret.clicks[n].choice].options)
        /\ ticks[1].pc = "selected" =>
              \A k \in 1..Len(page.tof) :
                  clicksOnChoice(k) =
                      IF k <= Len(ticks[1].answers) /\ Len(page.tof[k].options) > 0
                      THEN 1 ELSE 0

\* Two scenarios, the second without options, and two answers: the call has
\* returned with one click, on an option of the first scenario
C31_Witness ==
    /\ call.fn = "selectTrueFalseAnswers"
    /\ ticks[1].pc = "selected"
    /\ Len(page.tof) = 2
    /\ page.tof[1].options # << >>
    /\ page.tof[2].options = << >>
    /\ Len(ticks[1].answers) = 2
    /\ Len(ret.clicks) = 1
    /\ ret.clicks[1].choice = 1

\* The numbers of the reply's lines are all different
distinctNumbers(lines) ==
    \A m, n \in 1..Len(lines) : lines[m].number = lines[n].number => m = n

\* C32: for a true/false reply of numbered lines (each number once), the
\* answer handed back for choice k is the text of the line numbered k
C32_AnswerOfLineK ==
    (call.fn = "handleOpenAIProcessing" /\ ticks[1].ctype = TRUE_FALSE
        /\ distinctNumbers(call.answer)) =>
        \A n \in 1..Len(call.answer) :
            LET k == call.answer[n].number
            IN  /\ k <= Len(ticks[1].answers)
                /\ ticks[1].answers[k] = call.answer[n].text

\* C33: a unit_exam question whose model call succeeds with a non-empty reply
\* hands a non-empty answer list back to handleUnitExamContent
C33_UnitExamAnswersNonEmpty ==
    (call.fn = "handleOpenAIProcessing" /\ ticks[1].ctype = UNIT_EXAM
        /\ replyText(call.answer) # << >>) =>
        ticks[1].answers # << >>

\* C34: a polling tick that detected the submission dialog and clicked Submit
\* Exam clicks no other control: the clickNextButton the interval callback
\* runs for 'unknown' finds no button to click
C34_OnlySubmitClicked ==
    [][ \A t \in Slots :
          (ticks[t].pc = "fallbackNext" /\ ticks[t].did = { "button" }
              /\ ticks'[t] # ticks[t])
              => cascadesOn[page].next = 0 ]_vars

\* C35: once the automation is paused no further click is made on the page
C35_NoClickOncePaused ==
    [][ rich.automationPaused => /\ ret'.clicks = ret.clicks
                                 /\ ret'.pressed = ret.pressed ]_vars

\* The number of selections the reply asks for
requestedCount(exam, text) ==
    IF exam.type \in { "true-false", "matching" } \/ isMultiSelect(exam)
    THEN Len(trimmedParts(text))
    ELSE 1

checkButtons == { "check", "checkText", "fallback" }

\* C36: a check, check-text or fallback button is clicked in handleAnswer
\* only when every selection the reply asks for clicked its label: the
\* labels clicked are those of the requests, one each and in order
C36_CheckOnlyWhenAllSelected ==
    (\E n \in 1..Len(ret.pressed) : ret.pressed[n] \in checkButtons) =>
        /\ Len(ret.clicks) = requestedCount(rich.exam, rich.processedResponse)
        /\ \A n \in 1..Len(ret.clicks) :
              ret.clicks[n] = labelClick(requests(rich.exam, rich.processedResponse)[n])

\* An accepted reply with two selections: both labels, then the check button
C36_Witness ==
    /\ rich.processedResponse = t1A2B
    /\ Len(ret.clicks) = 2
    /\ ret.pressed = << "check" >>

\* C37: a pass whose reply fails the format or range check clicks nothing,
\* and when a retry prompt has been sent nothing has been clicked yet
C37_RejectedReplyClicksNothing ==
    [][ /\ (rich.pc = "attempt"
              /\ attemptThrowsOn[rich.exam, rich.processedResponse])
              => /\ ret'.clicks = ret.clicks
                 /\ ret'.pressed = ret.pressed
        /\ rich'.pc = "retry" => /\ ret'.clicks = << >>
                                 /\ ret'.pressed = << >> ]_vars

\* A reply accepted after two rejected ones: the only clicks are its own
C37_Witness ==
    /\ rich.currentTry = 2
    /\ rich.pc = "done"
    /\ rich.processedResponse = t2
    /\ ret.clicks = << [kind |-> "label", choice |-> 0, opt |-> 2] >>
    /\ ret.pressed = << "check", "next" >>

\* The choice text and the answer are equal, equal ignoring case, or one
\* contains the other, and neither is empty
nonEmptyMatch(text, answer) ==
    /\ text # << >>
    /\ answer # << >>
    /\ \/ text = answer
       \/ toLowerCase(text) = toLowerCase(answer)
       \/ includes(text, answer)
       \/ includes(answer, text)

\* C38: the choice that selectMultipleChoiceAnswer or selectUnitExamAnswer
\* clicked for the first answer matches it, and neither text is empty
C38_ClickNeedsNonEmptyMatch ==
    (call.fn \in ChoiceHandlers /\ ret.clicks # << >>) =>
        \A k \in 1..Len(ticks[1].qd.choices) :
            (hasElement(ticks[1].qd.choices[k])
                /\ ticks[1].qd.choices[k].optionElements[1] = ret.clicks[1])
                => nonEmptyMatch(ticks[1].qd.choices[k].text, ticks[1].answers[1])

\* The calls of sendMessage whose message is with the background context
sentCalls(h) == { i \in 1..Len(h.calls) : h.calls[i].state = "sent" }

\* C39: a call of sendMessage with a blank text is rejected with 'Message is
\* empty', sends nothing and leaves the loading flag and the response as they
\* were; for any other call the loading flag is set while its message is
\* with the background context, and is false once its response has arrived
C39_LoadingWhileSent ==
    [][ /\ Len(hook'.calls) > Len(hook.calls) =>
              LET c == hook'.calls[Len(hook'.calls)]
              IN  trim(c.text) = << >> =>
                     /\ c.state = "rejected"
                     /\ c.error = "Message is empty"
                     /\ hook'.isLoading = hook.isLoading
                     /\ hook'.response = hook.response
        /\ sentCalls(hook') # {} => hook'.isLoading
        /\ sentCalls(hook') # sentCalls(hook) /\ sentCalls(hook') \subseteq sentCalls(hook)
              => ~hook'.isLoading ]_vars

=============================================================================
